---- MODULE Spec2Model ----
(***************************************************************************)
(* PGMQueue (tembo_pgmq_python/sqlalchemy/queue.py): the client of the     *)
(* pgmq message queue, over a model of the store it sends statements to.   *)
(* Time is the store's clock, in seconds.                                  *)
(***************************************************************************)
EXTENDS Integers, Sequences, FiniteSets, TLC

\* ------------------------------------------------------------------ bounds
\* The last second of the store's clock the model reaches.
MaxClock == 3
\* The number of calls the callers make in one behaviour.
MaxCalls == 4

\* ------------------------------------------------------- program constants
\* PGMQueue.vt: the visibility timeout read() uses when none is given.
DefaultVt == 30

\* ------------------------------------------------------------------ inputs
\* Queue names of 48 and of 49 characters.
Name48 == "q23456789012345678901234567890123456789012345678"
Name49 == "q234567890123456789012345678901234567890123456789"
QueueNames == {"q1", "q2", Name48, Name49}
Consumers == {1, 2}
VTs == {0, 2}
Delays == {0, 2}
NoSession == 0
\* The caller's own session of consumer c.
CallerSession(c) == 10 + c
\* The session the client opens for one call of consumer c.
OwnSession(c) == c

Min(a, b) == IF a < b THEN a ELSE b

RECURSIVE SetToSeq(_)
\* The elements of a finite set of integers, ascending.
SetToSeq(S) ==
    IF S = {} THEN <<>>
    ELSE LET m == CHOOSE x \in S : \A y \in S : x <= y
         IN <<m>> \o SetToSeq(S \ {m})

Range(s) == {s[i] : i \in 1..Len(s)}

\* --------------------------------------------------------------- payloads
\* A JSON value as a tree: a string, an object (kids carry keys) or an array.
JStr(k, v) == [tag |-> "str", key |-> k, val |-> v, kids |-> <<>>]
JObj(k, kids) == [tag |-> "obj", key |-> k, val |-> "", kids |-> kids]
JArr(k, kids) == [tag |-> "arr", key |-> k, val |-> "", kids |-> kids]

\* The payload documents the callers send.
Docs ==
    { JObj("", <<JStr("a", "x")>>),
      JObj("", <<JStr("b", "y"), JStr("a", "x")>>),
      JObj("", <<JObj("b", <<JArr("a", <<JStr("", "y"), JStr("", "x")>>)>>)>>),
      JObj("", <<>>) }

Tok(t, v) == [t |-> t, v |-> v]

RECURSIVE Dumps(_)
RECURSIVE DumpKids(_, _, _)
\* json.dumps of the kids of a container, comma separated, from the i-th on.
DumpKids(kids, i, withKeys) ==
    IF i > Len(kids) THEN <<>>
    ELSE (IF i > 1 THEN <<Tok(",", "")>> ELSE <<>>)
         \o (IF withKeys THEN <<Tok("key", kids[i].key), Tok(":", "")>> ELSE <<>>)
         \o Dumps(kids[i])
         \o DumpKids(kids, i + 1, withKeys)

\* json.dumps: the text of a JSON value, as its sequence of tokens.
Dumps(n) ==
    CASE n.tag = "str" -> <<Tok("str", n.val)>>
      [] n.tag = "obj" -> <<Tok("{", "")>> \o DumpKids(n.kids, 1, TRUE) \o <<Tok("}", "")>>
      [] OTHER -> <<Tok("[", "")>> \o DumpKids(n.kids, 1, FALSE) \o <<Tok("]", "")>>

\* encode_dict_to_psql: the payload as a quoted literal cast to jsonb.
encode_dict_to_psql(msg) == [literal |-> Dumps(msg), cast |-> "jsonb"]

\* encode_list_to_psql: the payloads as an ARRAY[...] of such literals, in order.
encode_list_to_psql(msgs) == [array |-> [i \in 1..Len(msgs) |-> encode_dict_to_psql(msgs[i])]]

\* jsonb keeps an object's keys sorted; the rank of a key in that order.
KeyRank(k) == CASE k = "" -> 0 [] k = "a" -> 1 [] k = "b" -> 2 [] OTHER -> 3

RECURSIVE SortKids(_)
\* The kids of an object in jsonb's key order (insertion sort, last key wins).
SortKids(kids) ==
    IF kids = <<>> THEN <<>>
    ELSE LET k == kids[Len(kids)]
             rest == SortKids(SubSeq(kids, 1, Len(kids) - 1))
             lo == SelectSeq(rest, LAMBDA x : KeyRank(x.key) < KeyRank(k.key))
             hi == SelectSeq(rest, LAMBDA x : KeyRank(x.key) > KeyRank(k.key))
         IN lo \o <<k>> \o hi

RECURSIVE ParseValue(_, _, _)
RECURSIVE ParseKids(_, _, _, _)
\* Parses the members of a container from token i on, up to its closing
\* bracket: [kids, next], next the index after the bracket.
ParseKids(toks, i, withKeys, acc) ==
    IF toks[i].t \in {"}", "]"} THEN [kids |-> acc, next |-> i + 1]
    ELSE LET j == IF toks[i].t = "," THEN i + 1 ELSE i
             key == IF withKeys THEN toks[j].v ELSE ""
             v == ParseValue(toks, IF withKeys THEN j + 2 ELSE j, key)
         IN ParseKids(toks, v.next, withKeys, Append(acc, v.node))

\* Parses the JSON value that starts at token i: [node, next].
ParseValue(toks, i, key) ==
    CASE toks[i].t = "str" -> [node |-> JStr(key, toks[i].v), next |-> i + 1]
      [] toks[i].t = "{" ->
            LET m == ParseKids(toks, i + 1, TRUE, <<>>)
            IN [node |-> JObj(key, SortKids(m.kids)), next |-> m.next]
      [] OTHER ->
            LET m == ParseKids(toks, i + 1, FALSE, <<>>)
            IN [node |-> JArr(key, m.kids), next |-> m.next]

\* The store's jsonb input: the document a literal denotes.
JsonbIn(lit) == ParseValue(lit.literal, 1, "").node

RECURSIVE Canon(_)
\* A document with the keys of every object in one order: two documents are
\* structurally equal iff their canonical forms are equal.
Canon(n) ==
    LET ks == [i \in 1..Len(n.kids) |-> Canon(n.kids[i])]
    IN [n EXCEPT !.kids = IF n.tag = "obj" THEN SortKids(ks) ELSE ks]

StructEq(a, b) == Canon(a) = Canon(b)

\* ------------------------------------------------------------------ store
(* The store: per queue name a table of messages, an archive and the       *)
(* msg_id sequence. A row touched by a transaction that has not committed  *)
(* carries the session's id in lock: st is "ins" for a row it inserted     *)
(* (no other session sees it), "del" for a row it deleted, and old_ct and  *)
(* old_vt hold what the other sessions still see of a row it updated.      *)
NewRow(id, now, vt, doc, sid) ==
    [msg_id |-> id, read_ct |-> 0, enqueued_at |-> now, vt |-> vt, message |-> doc,
     lock |-> sid, st |-> "ins", old_ct |-> 0, old_vt |-> vt]

\* A queue: st is "none", "live", "ins" (created by the transaction of the
\* session lock), "del" (dropped by it) or "redo" (dropped and created
\* again by it: old holds the queue the other sessions still see).
NoTable == [st |-> "none", lock |-> 0, rows |-> {}, arch |-> {}, seq |-> 0, old |-> <<>>]

\* The rows of a set a session sees: the committed ones and its own.
Seen(rows, sid) == {r \in rows : (r.lock = sid /\ r.st # "del") \/ (r.lock # sid /\ r.st # "ins")}

\* Those rows with the values the session sees: of a row another session
\* has updated and not committed, the values before the update.
AsSeen(rows, sid) ==
    {IF r.lock \in {0, sid} THEN r ELSE [r EXCEPT !.read_ct = r.old_ct, !.vt = r.old_vt] :
        r \in Seen(rows, sid)}

\* Whether a session sees the queue.
QueueSeen(t, sid) ==
    \/ t.st \in {"live", "redo"}
    \/ t.st = "ins" /\ t.lock = sid
    \/ t.st = "del" /\ t.lock # sid

\* The queue as a session sees it.
TableSeen(t, sid) ==
    IF t.st = "redo" /\ t.lock # sid
    THEN [t EXCEPT !.rows = t.old[1].rows, !.arch = t.old[1].arch, !.seq = t.old[1].seq]
    ELSE t

\* The rows a lease may take: visible now, and not locked by another
\* session (FOR UPDATE SKIP LOCKED).
Leasable(t, now, sid) == {r \in Seen(t.rows, sid) : r.vt <= now /\ r.lock \in {0, sid}}

\* The tuple a statement returns for a message row; the column order is
\* (msg_id, read_ct, enqueued_at, vt, message).
RowTuple(r) == <<r.msg_id, r.read_ct, r.enqueued_at, r.vt, r.message>>

RowOf(rows, id) == CHOOSE r \in rows : r.msg_id = id

\* The tuples of the rows with the given ids, in msg_id order.
Tuples(rows, ids) == [i \in 1..Len(ids) |-> RowTuple(RowOf(rows, ids[i]))]

\* What session.execute gives: the tables after it, the rows or the error,
\* and nexec, the number of statements that reached the store (one, or none
\* when the call failed before it sent anything).
Ok(tb, rows) == [tables |-> tb, rows |-> rows, err |-> "", nexec |-> 1]
Fail(tb, err) == [tables |-> tb, rows |-> <<>>, err |-> err, nexec |-> 1]
NotSent(tb, err) == [tables |-> tb, rows |-> <<>>, err |-> err, nexec |-> 0]

Replace(rows, new) == {r \in rows : \A n \in new : n.msg_id # r.msg_id} \cup new

\* pgmq.send_batch: one row per payload, ids from the sequence in input order.
PgSendBatch(tb, now, sid, q, lits, delay) ==
    LET t == tb[q]
        n == Len(lits.array)
        new == {NewRow(t.seq + i, now, now + delay, JsonbIn(lits.array[i]), sid) : i \in 1..n}
    IN Ok([tb EXCEPT ![q] = [t EXCEPT !.rows = @ \cup new, !.seq = @ + n]],
          [i \in 1..n |-> <<t.seq + i>>])

\* pgmq.send: a batch of one.
PgSend(tb, now, sid, q, lit, delay) == PgSendBatch(tb, now, sid, q, [array |-> <<lit>>], delay)

\* pgmq.read: lease up to qty rows, lowest msg_id first.
PgRead(tb, now, sid, q, vt, qty) ==
    LET t == tb[q]
        ids == SetToSeq({r.msg_id : r \in Leasable(t, now, sid)})
        take == SubSeq(ids, 1, Min(qty, Len(ids)))
        new == {[r EXCEPT !.vt = now + vt, !.read_ct = @ + 1, !.lock = sid] :
                   r \in {x \in t.rows : x.msg_id \in Range(take)}}
        rows2 == Replace(t.rows, new)
    IN Ok([tb EXCEPT ![q] = [t EXCEPT !.rows = rows2]], Tuples(rows2, take))

\* pgmq.set_vt: the row's vt becomes now + vt_offset.
PgSetVt(tb, now, sid, q, id, vt_offset) ==
    LET t == tb[q]
        new == {[r EXCEPT !.vt = now + vt_offset, !.lock = sid] :
                   r \in {x \in Seen(t.rows, sid) : x.msg_id = id}}
        rows2 == Replace(t.rows, new)
    IN Ok([tb EXCEPT ![q] = [t EXCEPT !.rows = rows2]],
          Tuples(rows2, SetToSeq({r.msg_id : r \in new})))

\* The rows left when a session deletes the rows `gone`: its own inserts
\* vanish, the others stay as deleted rows until it commits.
Deleted(rows, gone, sid) ==
    (rows \ gone) \cup {[r EXCEPT !.lock = sid, !.st = "del"] : r \in {x \in gone : x.st # "ins"}}

\* pgmq.delete(queue, ids[]): the ids that were there, each once.
PgDeleteBatch(tb, sid, q, ids) ==
    LET t == tb[q]
        gone == {r \in Seen(t.rows, sid) : r.msg_id \in Range(ids)}
    IN Ok([tb EXCEPT ![q] = [t EXCEPT !.rows = Deleted(@, gone, sid)]],
          [i \in 1..Cardinality(gone) |-> <<SetToSeq({r.msg_id : r \in gone})[i]>>])

\* pgmq.delete(queue, id): whether the row was there.
PgDelete(tb, sid, q, id) ==
    LET r == PgDeleteBatch(tb, sid, q, <<id>>)
    IN Ok(r.tables, <<<<r.rows # <<>> >>>>)

\* pgmq.archive(queue, ids[]): as delete, the rows move to the archive.
PgArchiveBatch(tb, sid, q, ids) ==
    LET t == tb[q]
        gone == {r \in Seen(t.rows, sid) : r.msg_id \in Range(ids)}
        kept == {[r EXCEPT !.lock = sid, !.st = "ins"] : r \in gone}
    IN Ok([tb EXCEPT ![q] = [t EXCEPT !.rows = Deleted(@, gone, sid), !.arch = @ \cup kept]],
          [i \in 1..Cardinality(gone) |-> <<SetToSeq({r.msg_id : r \in gone})[i]>>])

PgArchive(tb, sid, q, id) ==
    LET r == PgArchiveBatch(tb, sid, q, <<id>>)
    IN Ok(r.tables, <<<<r.rows # <<>> >>>>)

\* pgmq.pop: read and delete the first leasable row in one statement.
PgPop(tb, now, sid, q) ==
    LET t == tb[q]
        ids == SetToSeq({r.msg_id : r \in Leasable(t, now, sid)})
        take == SubSeq(ids, 1, Min(1, Len(ids)))
        gone == {r \in t.rows : r.msg_id \in Range(take)}
    IN Ok([tb EXCEPT ![q] = [t EXCEPT !.rows = Deleted(@, gone, sid)]], Tuples(t.rows, take))

\* pgmq.purge_queue: delete every row, return how many.
PgPurge(tb, sid, q) ==
    LET t == tb[q]
        gone == Seen(t.rows, sid)
    IN Ok([tb EXCEPT ![q] = [t EXCEPT !.rows = Deleted(@, gone, sid)]], <<<<Cardinality(gone)>>>>)

\* pgmq.create: a new empty queue, or nothing when the queue exists.
PgCreate(tb, sid, q) ==
    LET t == tb[q]
    IN IF QueueSeen(t, sid) THEN Ok(tb, <<>>)
       ELSE IF t.st = "del"
       THEN Ok([tb EXCEPT ![q] =
                   [NoTable EXCEPT !.st = "redo", !.lock = sid,
                                   !.old = <<[rows |-> t.rows, arch |-> t.arch, seq |-> t.seq]>>]],
               <<>>)
       ELSE Ok([tb EXCEPT ![q] = [NoTable EXCEPT !.st = "ins", !.lock = sid]], <<>>)

\* pgmq.drop_queue: the queue, its messages and its archive go; whether it existed.
PgDrop(tb, sid, q) ==
    IF ~QueueSeen(tb[q], sid) THEN Ok(tb, <<<<FALSE>>>>)
    ELSE Ok([tb EXCEPT ![q] =
                CASE @.st = "ins" -> NoTable
                  [] @.st = "redo" ->
                        [NoTable EXCEPT !.st = "del", !.lock = sid, !.rows = tb[q].old[1].rows,
                                        !.arch = tb[q].old[1].arch, !.seq = tb[q].old[1].seq]
                  [] OTHER -> [@ EXCEPT !.st = "del", !.lock = sid]],
            <<<<TRUE>>>>)

\* COMMIT: what the session did becomes what every session sees.
PgCommit(tb, sid) ==
    LET keep(rows) == {[r EXCEPT !.lock = 0, !.st = "live", !.old_ct = r.read_ct, !.old_vt = r.vt] :
                          r \in {x \in rows : x.lock = sid /\ x.st # "del"}}
                      \cup {r \in rows : r.lock # sid}
    IN [q \in DOMAIN tb |->
          IF tb[q].lock = sid /\ tb[q].st = "del" THEN NoTable
          ELSE [tb[q] EXCEPT !.rows = keep(@), !.arch = keep(@),
                             !.lock = IF @ = sid THEN 0 ELSE @,
                             !.st = IF tb[q].lock = sid THEN "live" ELSE @,
                             !.old = IF tb[q].lock = sid THEN <<>> ELSE @]]

\* ROLLBACK (also the end of a session that did not commit): what the
\* session did is undone; the msg_id sequence is not.
PgRollback(tb, sid) ==
    LET back(rows) == {[r EXCEPT !.lock = 0, !.st = "live", !.read_ct = r.old_ct, !.vt = r.old_vt] :
                          r \in {x \in rows : x.lock = sid /\ x.st # "ins"}}
                      \cup {r \in rows : r.lock # sid}
    IN [q \in DOMAIN tb |->
          IF tb[q].lock = sid /\ tb[q].st = "ins" THEN NoTable
          ELSE IF tb[q].lock = sid /\ tb[q].st = "redo"
          THEN [NoTable EXCEPT !.st = "live", !.rows = back(tb[q].old[1].rows),
                               !.arch = back(tb[q].old[1].arch), !.seq = tb[q].old[1].seq]
          ELSE [tb[q] EXCEPT !.rows = back(@), !.arch = back(@),
                             !.lock = IF @ = sid THEN 0 ELSE @,
                             !.st = IF tb[q].lock = sid THEN "live" ELSE @]]

\* The null of a column.
Null == -1

\* The metrics row of a queue as a session sees it: (queue_name,
\* queue_length, newest_msg_age_sec, oldest_msg_age_sec, total_messages,
\* scrape_time), the ages null when the queue has no message.
MetricsTuple(tb, now, sid, q) ==
    LET t == TableSeen(tb[q], sid)
        ats == {r.enqueued_at : r \in Seen(t.rows, sid)}
    IN <<q, Cardinality(Seen(t.rows, sid)),
         IF ats = {} THEN Null ELSE now - (CHOOSE a \in ats : \A b \in ats : b <= a),
         IF ats = {} THEN Null ELSE now - (CHOOSE a \in ats : \A b \in ats : a <= b),
         t.seq, now>>

\* pgmq.metrics: the row of the queue, no row for a queue that is not there.
PgMetrics(tb, now, sid, q) ==
    IF QueueSeen(tb[q], sid) THEN Ok(tb, <<MetricsTuple(tb, now, sid, q)>>) ELSE Ok(tb, <<>>)

\* The order the store lists the queues in.
QueueOrder == <<"q1", "q2", Name48, Name49>>

\* pgmq.metrics_all, its listing step: the queues the session sees.
PgListQueues(tb, sid) == SelectSeq(QueueOrder, LAMBDA q : QueueSeen(tb[q], sid))

\* pgmq.metrics_all, its step over the queues listed: the metrics row of
\* each. For a listed queue that is gone by now the store either fails the
\* statement or has no row.
PgMetricsAll(tb, now, sid, listed, fails) ==
    LET there == SelectSeq(listed, LAMBDA q : QueueSeen(tb[q], sid))
    IN IF there # listed /\ fails THEN Fail(tb, "UndefinedTable")
       ELSE Ok(tb, [i \in 1..Len(there) |-> MetricsTuple(tb, now, sid, there[i])])

\* -------------------------------------------------------------- statements
\* The longest queue name the statement builder takes.
MaxQueueNameLen == 48

\* The statement builder validates the length of the queue name before it
\* builds a statement that targets a queue: for a longer name it raises,
\* and there is no statement.
Validated(queue_name, stmt) ==
    IF Len(queue_name) <= MaxQueueNameLen THEN stmt
    ELSE [verb |-> "raise", queue |-> queue_name, err |-> "ValidationError"]

\* _statement.*: the statement of each verb with its parameters.
statement_create_queue(queue_name, unlogged) ==
    Validated(queue_name, [verb |-> "create", queue |-> queue_name, unlogged |-> unlogged])
statement_create_partitioned_queue(queue_name, partition_interval, retention_interval) ==
    Validated(queue_name,
              [verb |-> "create_partitioned", queue |-> queue_name,
               partition_interval |-> partition_interval,
               retention_interval |-> retention_interval])
statement_validate_queue_name(queue_name) ==
    Validated(queue_name, [verb |-> "validate", queue |-> queue_name])
statement_drop_queue(queue_name, partitioned) ==
    Validated(queue_name, [verb |-> "drop", queue |-> queue_name, partitioned |-> partitioned])
statement_send(queue_name, message, delay) ==
    Validated(queue_name,
              [verb |-> "send", queue |-> queue_name, lit |-> message, delay |-> delay])
statement_send_batch(queue_name, messages, delay) ==
    Validated(queue_name,
              [verb |-> "send_batch", queue |-> queue_name, lit |-> messages, delay |-> delay])
statement_read(queue_name, vt) ==
    Validated(queue_name, [verb |-> "read", queue |-> queue_name, vt |-> vt, qty |-> 1])
statement_read_batch(queue_name, vt, batch_size) ==
    Validated(queue_name, [verb |-> "read", queue |-> queue_name, vt |-> vt, qty |-> batch_size])
statement_read_with_poll(queue_name, vt, qty, max_poll_seconds, poll_interval_ms) ==
    Validated(queue_name,
              [verb |-> "read_with_poll", queue |-> queue_name, vt |-> vt, qty |-> qty,
               max_poll_seconds |-> max_poll_seconds, poll_interval_ms |-> poll_interval_ms])
statement_set_vt(queue_name, msg_id, vt_offset) ==
    Validated(queue_name,
              [verb |-> "set_vt", queue |-> queue_name, id |-> msg_id, vt |-> vt_offset])
statement_pop(queue_name) == Validated(queue_name, [verb |-> "pop", queue |-> queue_name])
statement_delete(queue_name, msg_id) ==
    Validated(queue_name, [verb |-> "delete", queue |-> queue_name, id |-> msg_id])
statement_delete_batch(queue_name, msg_ids) ==
    Validated(queue_name,
              [verb |-> "delete_batch", queue |-> queue_name, ids |-> msg_ids, typed |-> TRUE])
statement_archive(queue_name, msg_id) ==
    Validated(queue_name, [verb |-> "archive", queue |-> queue_name, id |-> msg_id])
statement_archive_batch(queue_name, msg_ids) ==
    Validated(queue_name,
              [verb |-> "archive_batch", queue |-> queue_name, ids |-> msg_ids, typed |-> TRUE])
statement_metrics(queue_name) == Validated(queue_name, [verb |-> "metrics", queue |-> queue_name])
statement_metrics_all == [verb |-> "metrics_all"]
statement_purge(queue_name) == Validated(queue_name, [verb |-> "purge", queue |-> queue_name])

\* _statement.check_pg_partman_ext, which __init__ executes, and
\* text("create extension if not exists pg_partman cascade;")
check_pg_partman_ext == [verb |-> "create_extension", name |-> "pg_partman"]
text_create_extension_pg_partman == [verb |-> "create_extension", name |-> "pg_partman"]

\* create extension if not exists
PgCreateExtension(ext, name) == ext \cup {name}

\* text(f"select * from pgmq.delete('{queue_name}',{msg_id}::BIGINT);"): the
\* statement is written in place, without the statement builder.
text_delete(queue_name, msg_id) == [verb |-> "delete", queue |-> queue_name, id |-> msg_id]

\* text(f"select * from pgmq.delete('{queue_name}',ARRAY{msg_ids});"): the
\* list is written as Python prints it, [1, 2] or [], after the word ARRAY
\* and with no cast. An ARRAY[] constructor with no element has no type.
text_delete_batch(queue_name, msg_ids) ==
    [verb |-> "delete_batch", queue |-> queue_name, ids |-> msg_ids, typed |-> msg_ids # <<>>]

\* Whether the statement has to wait for another session's transaction: the
\* queue is being created or dropped by it, or a row the statement names (any
\* row for purge and drop) is locked by it.
PgBlocked(tb, sid, verb, q, ids) ==
    LET t == tb[q]
        others == {r \in t.rows \cup t.arch : r.lock \notin {0, sid}}
    IN \/ t.lock \notin {0, sid}
       \/ verb \in {"purge", "drop"} /\ others # {}
       \/ \E r \in others : r.st # "ins" /\ r.msg_id \in ids

\* The store runs one statement in the session's transaction. Of a
\* read_with_poll it is one attempt of the loop: the lease of up to qty
\* messages; the loop around it is the action PollAttempt.
PgExec(tb, now, sid, stmt) ==
    LET q == stmt.queue
        v == stmt.verb
    IN CASE v \in {"create", "create_partitioned"} -> PgCreate(tb, sid, q)
         [] v = "validate" -> Ok(tb, <<>>)
         [] v = "metrics" -> PgMetrics(tb, now, sid, q)
         [] v = "drop" -> PgDrop(tb, sid, q)
         [] ~QueueSeen(tb[q], sid) -> Fail(tb, "UndefinedTable")
         [] v = "send" -> PgSend(tb, now, sid, q, stmt.lit, stmt.delay)
         [] v = "send_batch" -> PgSendBatch(tb, now, sid, q, stmt.lit, stmt.delay)
         [] v = "read" -> PgRead(tb, now, sid, q, stmt.vt, stmt.qty)
         [] v = "read_with_poll" -> PgRead(tb, now, sid, q, stmt.vt, stmt.qty)
         [] v = "set_vt" -> PgSetVt(tb, now, sid, q, stmt.id, stmt.vt)
         [] v = "pop" -> PgPop(tb, now, sid, q)
         [] v = "delete" -> PgDelete(tb, sid, q, stmt.id)
         [] v = "delete_batch" ->
               IF stmt.typed THEN PgDeleteBatch(tb, sid, q, stmt.ids)
               ELSE Fail(tb, "IndeterminateDatatype")
         [] v = "archive" -> PgArchive(tb, sid, q, stmt.id)
         [] v = "archive_batch" ->
               IF stmt.typed THEN PgArchiveBatch(tb, sid, q, stmt.ids)
               ELSE Fail(tb, "IndeterminateDatatype")
         [] v = "purge" -> PgPurge(tb, sid, q)
         [] OTHER -> Fail(tb, "SyntaxError")

\* --------------------------------------------------------------- sessions
\* session.execute(statement): on no session at all (None) the attribute
\* lookup fails; then the argument is evaluated, and an exception of the
\* statement builder leaves before the call; in both cases nothing is sent.
session_execute(tb, now, session, stmt) ==
    IF session = NoSession THEN NotSent(tb, "AttributeError")
    ELSE IF stmt.verb = "raise" THEN NotSent(tb, stmt.err)
    ELSE PgExec(tb, now, session, stmt)

session_commit(tb, session) == PgCommit(tb, session)

\* inject_session / inject_async_session: the session the body runs on, the
\* caller's when one is given and else one the client opens for the call.
inject_session(c, session) == IF session # NoSession THEN session ELSE OwnSession(c)

\* Leaving the decorator: a session the client opened is closed, and what it
\* did not commit is rolled back; the caller's session is left as it is.
session_exit(tb, c, session) ==
    IF session # NoSession THEN tb ELSE PgRollback(tb, OwnSession(c))

\* ---------------------------------------------------------------- results
NoRet == [kind |-> "none", msgs |-> <<>>, ids |-> <<>>, val |-> 0, flag |-> FALSE, err |-> ""]
RetMsg(m) == [NoRet EXCEPT !.kind = "msg", !.msgs = <<m>>]
RetMsgs(ms) == [NoRet EXCEPT !.kind = "msgs", !.msgs = ms]
RetInt(i) == [NoRet EXCEPT !.kind = "int", !.val = i]
RetIds(ids) == [NoRet EXCEPT !.kind = "ids", !.ids = ids]
RetBool(b) == [NoRet EXCEPT !.kind = "bool", !.flag = b]
RetMetrics(ms) == [NoRet EXCEPT !.kind = "metrics", !.msgs = ms]
RetErr(e) == [NoRet EXCEPT !.kind = "err", !.err = e]

\* The mapping with msg_id and read_ct taken from each other's column.
Message_Swapped(row) ==
    [msg_id |-> row[2], read_ct |-> row[1], enqueued_at |-> row[3], vt |-> row[4],
     message |-> row[5]]

\* The mapping with read_ct left at 0.
Message_NoReadCt(row) ==
    [msg_id |-> row[1], read_ct |-> 0, enqueued_at |-> row[3], vt |-> row[4], message |-> row[5]]

\* Message(msg_id=row[0], read_ct=row[1], enqueued_at=row[2], vt=row[3], message=row[4])
Message(row) ==
    [msg_id |-> row[1], read_ct |-> row[2], enqueued_at |-> row[3], vt |-> row[4],
     message |-> row[5]]

\* What a call hands back: the tables after it, what it returns (or raises),
\* how many times it committed and how many statements it sent to the store.
Done(tb, ret, ncommit, nexec) ==
    [tables |-> tb, ret |-> ret, ncommit |-> ncommit, nexec |-> nexec]

\* An exception from session.execute leaves the body at once.
Raise(r, c, session) == Done(session_exit(r.tables, c, session), RetErr(r.err), 0, r.nexec)

\* The commit left to the caller whenever the session is the caller's.
Finish_CallerOwns(r, c, s, session, commit, ret) ==
    Done(session_exit(IF commit /\ session = NoSession THEN session_commit(r.tables, s)
                      ELSE r.tables,
                      c, session),
         ret, IF commit /\ session = NoSession THEN 1 ELSE 0, r.nexec)

\* The return with the commit left out.
Finish_NoCommit(r, c, s, session, commit, ret) ==
    Done(session_exit(r.tables, c, session), ret, 0, r.nexec)

\* if commit: session.commit(), and then the return through the decorator.
Finish(r, c, s, session, commit, ret) ==
    Done(session_exit(IF commit THEN session_commit(r.tables, s) ELSE r.tables, c, session),
         ret, IF commit THEN 1 ELSE 0, r.nexec)

\* ------------------------------------------------------------------ state
VARIABLES
    self,       \* the other fields of the PGMQueue object, and its constructor call
    is_async,   \* PGMQueue.is_async, fixed by the constructor
    tables,     \* the store
    now,        \* the store's clock
    tx,         \* per caller session: whether its transaction is open
    last,       \* the last call that returned: what was asked and the result
    pc,         \* per consumer: "idle", or where its call in flight stands
    call,       \* per consumer: the call in flight
    leases,     \* history: per message, the last lease a call returned, unless a set_vt followed
    sent,       \* history: per message, when and with what delay it was sent, unless a set_vt followed
    calls,      \* the number of calls made so far
    removed,    \* history: per message, the delete and archive calls that reported it removed
    is_pg_partman_ext_checked,  \* PGMQueue.is_pg_partman_ext_checked
    extensions  \* the extensions created in the store

vars == <<self, is_async, tables, now, tx, last, pc, call, leases, sent, calls, removed,
          is_pg_partman_ext_checked, extensions>>

\* ----------------------------------------------------------------- client
\* _send_sync with the exception of session.execute caught: the method
\* goes on to its commit and returns None.
_send_sync_Swallowed(tb, t, c, queue_name, message, delay, session, commit) ==
    LET s == inject_session(c, session)
        r == session_execute(tb, t, s, statement_send(queue_name, message, delay))
    IN IF r.err # "" THEN Finish(r, c, s, session, commit, NoRet)
       ELSE Finish(r, c, s, session, commit, RetInt(r.rows[1][1]))

\* _send_sync returning the number of rows in the place of row[0].
_send_sync_RowCount(tb, t, c, queue_name, message, delay, session, commit) ==
    LET s == inject_session(c, session)
        r == session_execute(tb, t, s, statement_send(queue_name, message, delay))
    IN IF r.err # "" THEN Raise(r, c, session)
       ELSE Finish(r, c, s, session, commit, RetInt(Len(r.rows)))

\* PGMQueue._send_sync
_send_sync(tb, t, c, queue_name, message, delay, session, commit) ==
    LET s == inject_session(c, session)
        r == session_execute(tb, t, s, statement_send(queue_name, message, delay))
    IN IF r.err # "" THEN Raise(r, c, session)
       ELSE Finish(r, c, s, session, commit, RetInt(r.rows[1][1]))

\* PGMQueue._send_async: the same statement on the AsyncSession.
_send_async(tb, t, c, queue_name, message, delay, session, commit) ==
    LET s == inject_session(c, session)
        r == session_execute(tb, t, s, statement_send(queue_name, message, delay))
    IN IF r.err # "" THEN Raise(r, c, session)
       ELSE Finish(r, c, s, session, commit, RetInt(r.rows[1][1]))

\* send with the delay left at its default instead of the caller's.
send_NoDelay(tb, t, c, queue_name, message, delay, session, commit) ==
    IF is_async
    THEN _send_async(tb, t, c, queue_name, encode_dict_to_psql(message), 0, session, commit)
    ELSE _send_sync(tb, t, c, queue_name, encode_dict_to_psql(message), 0, session, commit)

\* PGMQueue.send
send(tb, t, c, queue_name, message, delay, session, commit) ==
    IF is_async
    THEN _send_async(tb, t, c, queue_name, encode_dict_to_psql(message), delay, session, commit)
    ELSE _send_sync(tb, t, c, queue_name, encode_dict_to_psql(message), delay, session, commit)

\* The first column of the rows, last row first.
FirstColumn_Reversed(rows) == [i \in 1..Len(rows) |-> rows[Len(rows) + 1 - i][1]]

\* [row[0] for row in rows]
FirstColumn(rows) == [i \in 1..Len(rows) |-> rows[i][1]]

\* PGMQueue._send_batch_sync
_send_batch_sync(tb, t, c, queue_name, messages, delay, session, commit) ==
    LET s == inject_session(c, session)
        r == session_execute(tb, t, s, statement_send_batch(queue_name, messages, delay))
    IN IF r.err # "" THEN Raise(r, c, session)
       ELSE Finish(r, c, s, session, commit, RetIds(FirstColumn(r.rows)))

\* PGMQueue._send_batch_async
_send_batch_async(tb, t, c, queue_name, messages, delay, session, commit) ==
    LET s == inject_session(c, session)
        r == session_execute(tb, t, s, statement_send_batch(queue_name, messages, delay))
    IN IF r.err # "" THEN Raise(r, c, session)
       ELSE Finish(r, c, s, session, commit, RetIds(FirstColumn(r.rows)))

\* PGMQueue.send_batch
send_batch(tb, t, c, queue_name, messages, delay, session, commit) ==
    IF is_async
    THEN _send_batch_async(tb, t, c, queue_name, encode_list_to_psql(messages), delay, session, commit)
    ELSE _send_batch_sync(tb, t, c, queue_name, encode_list_to_psql(messages), delay, session, commit)

\* fetchone() and the mapping of its row: None, or the Message.
OneMessage(rows) == IF rows = <<>> THEN NoRet ELSE RetMsg(Message(rows[1]))

\* The mapping of the rows without the test for no row: [] for None.
AllMessages_EmptyList(rows) == RetMsgs([i \in 1..Len(rows) |-> Message(rows[i])])

\* fetchall() and the mapping of its rows: None when there is no row.
AllMessages(rows) ==
    IF rows = <<>> THEN NoRet ELSE RetMsgs([i \in 1..Len(rows) |-> Message(rows[i])])

\* PGMQueue._read_sync
_read_sync(tb, t, c, queue_name, vt, session, commit) ==
    LET s == inject_session(c, session)
        r == session_execute(tb, t, s, statement_read(queue_name, vt))
    IN IF r.err # "" THEN Raise(r, c, session)
       ELSE Finish(r, c, s, session, commit, OneMessage(r.rows))

\* PGMQueue._read_async
_read_async(tb, t, c, queue_name, vt, session, commit) ==
    LET s == inject_session(c, session)
        r == session_execute(tb, t, s, statement_read(queue_name, vt))
    IN IF r.err # "" THEN Raise(r, c, session)
       ELSE Finish(r, c, s, session, commit, OneMessage(r.rows))

\* vt = self.vt when the caller gives none
NoVt == -1
VtOrDefault(vt) == IF vt = NoVt THEN DefaultVt ELSE vt

\* read with "vt or self.vt": a vt of 0 is taken for none.
read_FalsyVt(tb, t, c, queue_name, vt, session, commit) ==
    IF is_async
    THEN _read_async(tb, t, c, queue_name, IF vt \in {NoVt, 0} THEN DefaultVt ELSE vt, session, commit)
    ELSE _read_sync(tb, t, c, queue_name, IF vt \in {NoVt, 0} THEN DefaultVt ELSE vt, session, commit)

\* PGMQueue.read
read(tb, t, c, queue_name, vt, session, commit) ==
    IF is_async
    THEN _read_async(tb, t, c, queue_name, VtOrDefault(vt), session, commit)
    ELSE _read_sync(tb, t, c, queue_name, VtOrDefault(vt), session, commit)

\* PGMQueue._read_batch_sync
_read_batch_sync(tb, t, c, queue_name, vt, batch_size, session, commit) ==
    LET s == inject_session(c, session)
        r == session_execute(tb, t, s, statement_read_batch(queue_name, vt, batch_size))
    IN IF r.err # "" THEN Raise(r, c, session)
       ELSE Finish(r, c, s, session, commit, AllMessages(r.rows))

\* PGMQueue._read_batch_async
_read_batch_async(tb, t, c, queue_name, vt, batch_size, session, commit) ==
    LET s == inject_session(c, session)
        r == session_execute(tb, t, s, statement_read_batch(queue_name, vt, batch_size))
    IN IF r.err # "" THEN Raise(r, c, session)
       ELSE Finish(r, c, s, session, commit, AllMessages(r.rows))

\* read_batch with vt and batch_size handed on in each other's place.
read_batch_Swapped(tb, t, c, queue_name, batch_size, vt, session, commit) ==
    IF is_async
    THEN _read_batch_async(tb, t, c, queue_name, batch_size, VtOrDefault(vt), session, commit)
    ELSE _read_batch_sync(tb, t, c, queue_name, batch_size, VtOrDefault(vt), session, commit)

\* PGMQueue.read_batch
read_batch(tb, t, c, queue_name, batch_size, vt, session, commit) ==
    IF is_async
    THEN _read_batch_async(tb, t, c, queue_name, VtOrDefault(vt), batch_size, session, commit)
    ELSE _read_batch_sync(tb, t, c, queue_name, VtOrDefault(vt), batch_size, session, commit)

\* PGMQueue._read_with_poll_sync up to session.execute: the session the
\* decorator gives it and the statement it submits.
_read_with_poll_sync(c, queue_name, vt, qty, max_poll_seconds, poll_interval_ms, session) ==
    [session |-> inject_session(c, session),
     stmt |-> statement_read_with_poll(queue_name, vt, qty, max_poll_seconds, poll_interval_ms)]

\* PGMQueue._read_with_poll_async up to session.execute: it has no
\* decorator, so the session is the caller's, or none at all.
_read_with_poll_async(c, queue_name, vt, qty, max_poll_seconds, poll_interval_ms, session) ==
    [session |-> session,
     stmt |-> statement_read_with_poll(queue_name, vt, qty, max_poll_seconds, poll_interval_ms)]

\* PGMQueue.read_with_poll
read_with_poll(c, queue_name, vt, qty, max_poll_seconds, poll_interval_ms, session) ==
    IF is_async
    THEN _read_with_poll_async(c, queue_name, VtOrDefault(vt), qty, max_poll_seconds,
                               poll_interval_ms, session)
    ELSE _read_with_poll_sync(c, queue_name, VtOrDefault(vt), qty, max_poll_seconds,
                              poll_interval_ms, session)

\* The exception taken for an attempt without a row: the call goes on to
\* return None.
read_with_poll_raise_Absent(r, c, session) == Done(session_exit(r.tables, c, session), NoRet, 0, r.nexec)

\* _read_with_poll_sync and _read_with_poll_async when session.execute
\* raises: nothing around it catches the exception, which leaves the method.
read_with_poll_raise(r, c, session) == Raise(r, c, session)

\* The mapping with every row of the result taken twice.
read_with_poll_rows_Twice(r, c, s, session, commit) ==
    Finish(r, c, s, session, commit, AllMessages(r.rows \o r.rows))

\* _read_with_poll_sync and _read_with_poll_async after session.execute:
\* the commit, and the messages of the rows.
read_with_poll_rows(r, c, s, session, commit) ==
    Finish(r, c, s, session, commit, AllMessages(r.rows))

\* PGMQueue._set_vt_sync
_set_vt_sync(tb, t, c, queue_name, msg_id, vt_offset, session, commit) ==
    LET s == inject_session(c, session)
        r == session_execute(tb, t, s, statement_set_vt(queue_name, msg_id, vt_offset))
    IN IF r.err # "" THEN Raise(r, c, session)
       ELSE Finish(r, c, s, session, commit, OneMessage(r.rows))

\* PGMQueue._set_vt_async: not decorated, it runs on the session it is given.
_set_vt_async(tb, t, c, queue_name, msg_id, vt_offset, session, commit) ==
    LET r == session_execute(tb, t, session, statement_set_vt(queue_name, msg_id, vt_offset))
    IN IF r.err # "" THEN Done(r.tables, RetErr(r.err), 0, r.nexec)
       ELSE Done(IF commit THEN session_commit(r.tables, session) ELSE r.tables,
                 OneMessage(r.rows), IF commit THEN 1 ELSE 0, r.nexec)

\* PGMQueue.set_vt
set_vt(tb, t, c, queue_name, msg_id, vt_offset, session, commit) ==
    IF is_async
    THEN _set_vt_async(tb, t, c, queue_name, msg_id, vt_offset, session, commit)
    ELSE _set_vt_sync(tb, t, c, queue_name, msg_id, vt_offset, session, commit)

\* PGMQueue._pop_sync
_pop_sync(tb, t, c, queue_name, session, commit) ==
    LET s == inject_session(c, session)
        r == session_execute(tb, t, s, statement_pop(queue_name))
    IN IF r.err # "" THEN Raise(r, c, session)
       ELSE Finish(r, c, s, session, commit, OneMessage(r.rows))

\* PGMQueue._pop_async
_pop_async(tb, t, c, queue_name, session, commit) ==
    LET s == inject_session(c, session)
        r == session_execute(tb, t, s, statement_pop(queue_name))
    IN IF r.err # "" THEN Raise(r, c, session)
       ELSE Finish(r, c, s, session, commit, OneMessage(r.rows))

\* pop dispatched to the read methods, with a visibility timeout of zero.
pop_AsRead(tb, t, c, queue_name, session, commit) ==
    IF is_async
    THEN _read_async(tb, t, c, queue_name, 0, session, commit)
    ELSE _read_sync(tb, t, c, queue_name, 0, session, commit)

\* PGMQueue.pop
pop(tb, t, c, queue_name, session, commit) ==
    IF is_async
    THEN _pop_async(tb, t, c, queue_name, session, commit)
    ELSE _pop_sync(tb, t, c, queue_name, session, commit)

\* PGMQueue._delete_sync
_delete_sync(tb, t, c, queue_name, msg_id, session, commit) ==
    LET s == inject_session(c, session)
        r == session_execute(tb, t, s, statement_delete(queue_name, msg_id))
    IN IF r.err # "" THEN Raise(r, c, session)
       ELSE Finish(r, c, s, session, commit, RetBool(r.rows[1][1]))

\* PGMQueue._delete_async: the statement is written in place.
_delete_async(tb, t, c, queue_name, msg_id, session, commit) ==
    LET s == inject_session(c, session)
        r == session_execute(tb, t, s, text_delete(queue_name, msg_id))
    IN IF r.err # "" THEN Raise(r, c, session)
       ELSE Finish(r, c, s, session, commit, RetBool(r.rows[1][1]))

\* delete with "return row is not None" for "return row[0]".
delete_RowPresent(tb, t, c, queue_name, msg_id, session, commit) ==
    LET d == IF is_async
             THEN _delete_async(tb, t, c, queue_name, msg_id, session, commit)
             ELSE _delete_sync(tb, t, c, queue_name, msg_id, session, commit)
    IN IF d.ret.kind = "bool" THEN [d EXCEPT !.ret = RetBool(TRUE)] ELSE d

\* PGMQueue.delete
delete(tb, t, c, queue_name, msg_id, session, commit) ==
    IF is_async
    THEN _delete_async(tb, t, c, queue_name, msg_id, session, commit)
    ELSE _delete_sync(tb, t, c, queue_name, msg_id, session, commit)

\* PGMQueue._delete_batch_sync
_delete_batch_sync(tb, t, c, queue_name, msg_ids, session, commit) ==
    LET s == inject_session(c, session)
        r == session_execute(tb, t, s, statement_delete_batch(queue_name, msg_ids))
    IN IF r.err # "" THEN Raise(r, c, session)
       ELSE Finish(r, c, s, session, commit, RetIds(FirstColumn(r.rows)))

\* PGMQueue._delete_batch_async: the statement is written in place.
_delete_batch_async(tb, t, c, queue_name, msg_ids, session, commit) ==
    LET s == inject_session(c, session)
        r == session_execute(tb, t, s, text_delete_batch(queue_name, msg_ids))
    IN IF r.err # "" THEN Raise(r, c, session)
       ELSE Finish(r, c, s, session, commit, RetIds(FirstColumn(r.rows)))

\* delete_batch with "return msg_ids" for the ids of the rows.
delete_batch_EchoInput(tb, t, c, queue_name, msg_ids, session, commit) ==
    LET d == IF is_async
             THEN _delete_batch_async(tb, t, c, queue_name, msg_ids, session, commit)
             ELSE _delete_batch_sync(tb, t, c, queue_name, msg_ids, session, commit)
    IN IF d.ret.kind = "ids" THEN [d EXCEPT !.ret = RetIds(msg_ids)] ELSE d

\* PGMQueue.delete_batch
delete_batch(tb, t, c, queue_name, msg_ids, session, commit) ==
    IF is_async
    THEN _delete_batch_async(tb, t, c, queue_name, msg_ids, session, commit)
    ELSE _delete_batch_sync(tb, t, c, queue_name, msg_ids, session, commit)

\* PGMQueue._archive_sync
_archive_sync(tb, t, c, queue_name, msg_id, session, commit) ==
    LET s == inject_session(c, session)
        r == session_execute(tb, t, s, statement_archive(queue_name, msg_id))
    IN IF r.err # "" THEN Raise(r, c, session)
       ELSE Finish(r, c, s, session, commit, RetBool(r.rows[1][1]))

\* PGMQueue._archive_async
_archive_async(tb, t, c, queue_name, msg_id, session, commit) ==
    LET s == inject_session(c, session)
        r == session_execute(tb, t, s, statement_archive(queue_name, msg_id))
    IN IF r.err # "" THEN Raise(r, c, session)
       ELSE Finish(r, c, s, session, commit, RetBool(r.rows[1][1]))

\* archive handing the message to the delete paths.
archive_AsDelete(tb, t, c, queue_name, msg_id, session, commit) ==
    IF is_async
    THEN _delete_async(tb, t, c, queue_name, msg_id, session, commit)
    ELSE _delete_sync(tb, t, c, queue_name, msg_id, session, commit)

\* PGMQueue.archive
archive(tb, t, c, queue_name, msg_id, session, commit) ==
    IF is_async
    THEN _archive_async(tb, t, c, queue_name, msg_id, session, commit)
    ELSE _archive_sync(tb, t, c, queue_name, msg_id, session, commit)

\* PGMQueue._archive_batch_sync
_archive_batch_sync(tb, t, c, queue_name, msg_ids, session, commit) ==
    LET s == inject_session(c, session)
        r == session_execute(tb, t, s, statement_archive_batch(queue_name, msg_ids))
    IN IF r.err # "" THEN Raise(r, c, session)
       ELSE Finish(r, c, s, session, commit, RetIds(FirstColumn(r.rows)))

\* PGMQueue._archive_batch_async
_archive_batch_async(tb, t, c, queue_name, msg_ids, session, commit) ==
    LET s == inject_session(c, session)
        r == session_execute(tb, t, s, statement_archive_batch(queue_name, msg_ids))
    IN IF r.err # "" THEN Raise(r, c, session)
       ELSE Finish(r, c, s, session, commit, RetIds(FirstColumn(r.rows)))

\* PGMQueue.archive_batch
archive_batch(tb, t, c, queue_name, msg_ids, session, commit) ==
    IF is_async
    THEN _archive_batch_async(tb, t, c, queue_name, msg_ids, session, commit)
    ELSE _archive_batch_sync(tb, t, c, queue_name, msg_ids, session, commit)

\* PGMQueue._purge_sync
_purge_sync(tb, t, c, queue_name, session, commit) ==
    LET s == inject_session(c, session)
        r == session_execute(tb, t, s, statement_purge(queue_name))
    IN IF r.err # "" THEN Raise(r, c, session)
       ELSE Finish(r, c, s, session, commit, RetInt(r.rows[1][1]))

\* PGMQueue._purge_async
_purge_async(tb, t, c, queue_name, session, commit) ==
    LET s == inject_session(c, session)
        r == session_execute(tb, t, s, statement_purge(queue_name))
    IN IF r.err # "" THEN Raise(r, c, session)
       ELSE Finish(r, c, s, session, commit, RetInt(r.rows[1][1]))

\* purge with the commit flag not handed on: nothing is committed.
purge_NoCommit(tb, t, c, queue_name, session, commit) ==
    IF is_async
    THEN _purge_async(tb, t, c, queue_name, session, FALSE)
    ELSE _purge_sync(tb, t, c, queue_name, session, FALSE)

\* PGMQueue.purge
purge(tb, t, c, queue_name, session, commit) ==
    IF is_async
    THEN _purge_async(tb, t, c, queue_name, session, commit)
    ELSE _purge_sync(tb, t, c, queue_name, session, commit)

\* PGMQueue._create_queue_sync
_create_queue_sync(tb, t, c, queue_name, unlogged, session, commit) ==
    LET s == inject_session(c, session)
        r == session_execute(tb, t, s, statement_create_queue(queue_name, unlogged))
    IN IF r.err # "" THEN Raise(r, c, session)
       ELSE Finish(r, c, s, session, commit, NoRet)

\* PGMQueue._create_queue_async
_create_queue_async(tb, t, c, queue_name, unlogged, session, commit) ==
    LET s == inject_session(c, session)
        r == session_execute(tb, t, s, statement_create_queue(queue_name, unlogged))
    IN IF r.err # "" THEN Raise(r, c, session)
       ELSE Finish(r, c, s, session, commit, NoRet)

\* create_queue with its statement written in place, as _delete_async
\* writes its own, without the statement builder.
create_queue_TextInPlace(tb, t, c, queue_name, unlogged, session, commit) ==
    LET s == inject_session(c, session)
        r == session_execute(tb, t, s, [verb |-> "create", queue |-> queue_name,
                                        unlogged |-> unlogged])
    IN IF r.err # "" THEN Raise(r, c, session)
       ELSE Finish(r, c, s, session, commit, NoRet)

\* PGMQueue.create_queue
create_queue(tb, t, c, queue_name, unlogged, session, commit) ==
    IF is_async
    THEN _create_queue_async(tb, t, c, queue_name, unlogged, session, commit)
    ELSE _create_queue_sync(tb, t, c, queue_name, unlogged, session, commit)

\* PGMQueue._create_partitioned_queue_sync
_create_partitioned_queue_sync(tb, t, c, queue_name, partition_interval, retention_interval, session, commit) ==
    LET s == inject_session(c, session)
        r == session_execute(tb, t, s,
                             statement_create_partitioned_queue(queue_name, partition_interval,
                                                                retention_interval))
    IN IF r.err # "" THEN Raise(r, c, session)
       ELSE Finish(r, c, s, session, commit, NoRet)

\* PGMQueue._create_partitioned_queue_async
_create_partitioned_queue_async(tb, t, c, queue_name, partition_interval, retention_interval, session, commit) ==
    LET s == inject_session(c, session)
        r == session_execute(tb, t, s,
                             statement_create_partitioned_queue(queue_name, partition_interval,
                                                                retention_interval))
    IN IF r.err # "" THEN Raise(r, c, session)
       ELSE Finish(r, c, s, session, commit, NoRet)

\* _check_pg_partman_ext without its flag: the statement every time.
_check_pg_partman_ext_Unflagged(checked, ext, fails) ==
    IF fails THEN [checked |-> TRUE, extensions |-> ext, nexec |-> 1, err |-> "OperationalError"]
    ELSE [checked |-> TRUE,
          extensions |-> PgCreateExtension(ext, text_create_extension_pg_partman.name),
          nexec |-> 1, err |-> ""]

\* _check_pg_partman_ext with the flag set after the statement: a statement
\* that raises leaves the flag as it was.
_check_pg_partman_ext_FlagAfter(checked, ext, fails) ==
    IF checked THEN [checked |-> TRUE, extensions |-> ext, nexec |-> 0, err |-> ""]
    ELSE IF fails
    THEN [checked |-> FALSE, extensions |-> ext, nexec |-> 1, err |-> "OperationalError"]
    ELSE [checked |-> TRUE,
          extensions |-> PgCreateExtension(ext, text_create_extension_pg_partman.name),
          nexec |-> 1, err |-> ""]

\* PGMQueue._check_pg_partman_ext, with _check_pg_partman_ext_sync and
\* _check_pg_partman_ext_async: once per client, the flag is set and then
\* the statement that creates the extension is executed and committed on a
\* session of the client's own; fails says that the store fails the
\* statement, and the exception leaves the method with the flag set.
_check_pg_partman_ext(checked, ext, fails) ==
    IF checked THEN [checked |-> TRUE, extensions |-> ext, nexec |-> 0, err |-> ""]
    ELSE IF fails
    THEN [checked |-> TRUE, extensions |-> ext, nexec |-> 1, err |-> "OperationalError"]
    ELSE [checked |-> TRUE,
          extensions |-> PgCreateExtension(ext, text_create_extension_pg_partman.name),
          nexec |-> 1, err |-> ""]

\* create_partitioned_queue with a statement of its own sent ahead of the
\* one that creates the queue.
create_partitioned_queue_TwoStatements(tb, t, c, queue_name, partition_interval, retention_interval, session, commit) ==
    LET r == IF is_async
             THEN _create_partitioned_queue_async(tb, t, c, queue_name, partition_interval,
                                                  retention_interval, session, commit)
             ELSE _create_partitioned_queue_sync(tb, t, c, queue_name, partition_interval,
                                                 retention_interval, session, commit)
    IN [r EXCEPT !.nexec = @ + 1]

\* PGMQueue.create_partitioned_queue after self._check_pg_partman_ext()
create_partitioned_queue(tb, t, c, queue_name, partition_interval, retention_interval, session, commit) ==
    IF is_async
    THEN _create_partitioned_queue_async(tb, t, c, queue_name, partition_interval,
                                         retention_interval, session, commit)
    ELSE _create_partitioned_queue_sync(tb, t, c, queue_name, partition_interval,
                                        retention_interval, session, commit)

\* PGMQueue._validate_queue_name_sync: the statement is executed; nothing
\* is committed and nothing is returned.
_validate_queue_name_sync(tb, t, c, queue_name, session) ==
    LET s == inject_session(c, session)
        r == session_execute(tb, t, s, statement_validate_queue_name(queue_name))
    IN IF r.err # "" THEN Raise(r, c, session)
       ELSE Done(session_exit(r.tables, c, session), NoRet, 0, r.nexec)

\* PGMQueue._validate_queue_name_async
_validate_queue_name_async(tb, t, c, queue_name, session) ==
    LET s == inject_session(c, session)
        r == session_execute(tb, t, s, statement_validate_queue_name(queue_name))
    IN IF r.err # "" THEN Raise(r, c, session)
       ELSE Done(session_exit(r.tables, c, session), NoRet, 0, r.nexec)

\* PGMQueue.validate_queue_name
validate_queue_name(tb, t, c, queue_name, session) ==
    IF is_async
    THEN _validate_queue_name_async(tb, t, c, queue_name, session)
    ELSE _validate_queue_name_sync(tb, t, c, queue_name, session)

\* PGMQueue._drop_queue_sync
_drop_queue_sync(tb, t, c, queue_name, partitioned, session, commit) ==
    LET s == inject_session(c, session)
        r == session_execute(tb, t, s, statement_drop_queue(queue_name, partitioned))
    IN IF r.err # "" THEN Raise(r, c, session)
       ELSE Finish(r, c, s, session, commit, RetBool(r.rows[1][1]))

\* PGMQueue._drop_queue_async
_drop_queue_async(tb, t, c, queue_name, partitioned, session, commit) ==
    LET s == inject_session(c, session)
        r == session_execute(tb, t, s, statement_drop_queue(queue_name, partitioned))
    IN IF r.err # "" THEN Raise(r, c, session)
       ELSE Finish(r, c, s, session, commit, RetBool(r.rows[1][1]))

\* PGMQueue.drop_queue after self._check_pg_partman_ext()
drop_queue(tb, t, c, queue_name, partitioned, session, commit) ==
    IF is_async
    THEN _drop_queue_async(tb, t, c, queue_name, partitioned, session, commit)
    ELSE _drop_queue_sync(tb, t, c, queue_name, partitioned, session, commit)

\* QueueMetrics(queue_name=row[0], queue_length=row[1], newest_msg_age_sec=row[2],
\* oldest_msg_age_sec=row[3], total_messages=row[4], scrape_time=row[5])
QueueMetrics(row) ==
    [queue_name |-> row[1], queue_length |-> row[2], newest_msg_age_sec |-> row[3],
     oldest_msg_age_sec |-> row[4], total_messages |-> row[5], scrape_time |-> row[6]]

\* PGMQueue._metrics_sync: None for no row; nothing is committed.
_metrics_sync(tb, t, c, queue_name, session) ==
    LET s == inject_session(c, session)
        r == session_execute(tb, t, s, statement_metrics(queue_name))
    IN IF r.err # "" THEN Raise(r, c, session)
       ELSE IF r.rows = <<>> THEN Done(session_exit(r.tables, c, session), NoRet, 0, r.nexec)
       ELSE Done(session_exit(r.tables, c, session), RetMetrics(<<QueueMetrics(r.rows[1])>>),
                 0, r.nexec)

\* PGMQueue._metrics_async
_metrics_async(tb, t, c, queue_name, session) ==
    LET s == inject_session(c, session)
        r == session_execute(tb, t, s, statement_metrics(queue_name))
    IN IF r.err # "" THEN Raise(r, c, session)
       ELSE IF r.rows = <<>> THEN Done(session_exit(r.tables, c, session), NoRet, 0, r.nexec)
       ELSE Done(session_exit(r.tables, c, session), RetMetrics(<<QueueMetrics(r.rows[1])>>),
                 0, r.nexec)

\* PGMQueue.metrics
metrics(tb, t, c, queue_name, session) ==
    IF is_async
    THEN _metrics_async(tb, t, c, queue_name, session)
    ELSE _metrics_sync(tb, t, c, queue_name, session)

\* PGMQueue._metrics_all_sync and _metrics_all_async up to session.execute:
\* the session, and the statement.
metrics_all(c, session) ==
    [session |-> inject_session(c, session), stmt |-> statement_metrics_all]

\* _metrics_all_sync and _metrics_all_async after session.execute: None for
\* no rows, else the QueueMetrics of each row; nothing is committed.
metrics_all_rows(r, c, session) ==
    IF r.err # "" THEN Raise(r, c, session)
    ELSE Done(session_exit(r.tables, c, session),
              IF r.rows = <<>> THEN NoRet
              ELSE RetMetrics([i \in 1..Len(r.rows) |-> QueueMetrics(r.rows[i])]),
              0, r.nexec)

\* ----------------------------------------------------------- construction
\* The dialects of a dsn, an engine or a session maker: blocking, suspending.
Dialects == {"psycopg", "asyncpg"}

\* f"postgresql+{dialect}://{user}:{password}@{host}:{port}/{database}"
Dsn(dialect) == IF dialect = "asyncpg" THEN "postgresql+asyncpg://" ELSE "postgresql+psycopg://"

\* _utils.is_async_dsn
is_async_dsn(dsn) == dsn = "postgresql+asyncpg://"

\* The arguments of the constructor at their defaults: None is "", and of
\* host, port, user, password and database only whether they are given.
NoArgs ==
    [transaction_mode |-> FALSE, dsn |-> "", engine |-> "", session_maker |-> "",
     dialect |-> "", host |-> FALSE, port |-> FALSE, user |-> FALSE, password |-> FALSE,
     database |-> FALSE]

\* The class attributes of PGMQueue, before any constructor has run.
ClassFields ==
    [constructed |-> "new", err |-> "", args |-> NoArgs, transaction_mode |-> FALSE,
     engine |-> "", session_maker |-> "", loops |-> 0]

\* _initialize_sqlalchemy with any() in the place of all(): one of the six
\* connection arguments is enough.
_initialize_sqlalchemy_Any(o, a) ==
    IF /\ a.dsn = "" /\ a.engine = "" /\ a.session_maker = ""
       /\ ~(a.dialect # "" \/ a.host \/ a.port \/ a.user \/ a.password \/ a.database)
    THEN [o EXCEPT !.self.err = "ValueError"]
    ELSE LET dsn == IF a.dsn = "" /\ a.engine = "" /\ a.session_maker = ""
                    THEN Dsn(a.dialect) ELSE a.dsn
             async == IF a.session_maker # "" THEN a.session_maker = "asyncpg"
                      ELSE IF a.engine # "" THEN a.engine = "asyncpg"
                      ELSE is_async_dsn(dsn)
             engine == IF a.session_maker # "" THEN o.self.engine
                       ELSE IF a.engine # "" THEN a.engine
                       ELSE IF async THEN "asyncpg" ELSE "psycopg"
             session_maker == IF a.session_maker # "" THEN a.session_maker ELSE engine
         IN [o EXCEPT !.self.engine = engine, !.self.session_maker = session_maker,
                      !.is_async = async,
                      !.self.loops = IF async THEN @ + 1 ELSE @]

\* PGMQueue._initialize_sqlalchemy: the engine, the session maker, is_async
\* and the event loop; ValueError when there is nothing to connect with.
_initialize_sqlalchemy(o, a) ==
    IF /\ a.dsn = "" /\ a.engine = "" /\ a.session_maker = ""
       /\ ~(a.dialect # "" /\ a.host /\ a.port /\ a.user /\ a.password /\ a.database)
    THEN [o EXCEPT !.self.err = "ValueError"]
    ELSE LET dsn == IF a.dsn = "" /\ a.engine = "" /\ a.session_maker = ""
                    THEN Dsn(a.dialect) ELSE a.dsn
             async == IF a.session_maker # "" THEN a.session_maker = "asyncpg"
                      ELSE IF a.engine # "" THEN a.engine = "asyncpg"
                      ELSE is_async_dsn(dsn)
             engine == IF a.session_maker # "" THEN o.self.engine
                       ELSE IF a.engine # "" THEN a.engine
                       ELSE IF async THEN "asyncpg" ELSE "psycopg"
             session_maker == IF a.session_maker # "" THEN a.session_maker ELSE engine
         IN [o EXCEPT !.self.engine = engine, !.self.session_maker = session_maker,
                      !.is_async = async,
                      !.self.loops = IF async THEN @ + 1 ELSE @]

\* PGMQueue._check_pgmq_ext: the statement it executes, and its commit.
_check_pgmq_ext(o) ==
    [o EXCEPT !.extensions = PgCreateExtension(@, check_pg_partman_ext.name)]

\* The constructor without its return in transaction mode: the connection
\* is set up and the extension statement executed in either case.
init_NoReturn(a, ext) ==
    LET o == [self |-> [ClassFields EXCEPT !.args = a, !.transaction_mode = a.transaction_mode],
              is_async |-> FALSE, extensions |-> ext]
        i == _initialize_sqlalchemy(o, a)
    IN IF i.self.err # "" THEN [i EXCEPT !.self.constructed = "failed"]
       ELSE [_check_pgmq_ext(i) EXCEPT !.self.constructed = "ready"]

\* The constructor with an event loop made in either mode.
init_LoopAlways(a, ext) ==
    LET o == [self |-> [ClassFields EXCEPT !.args = a, !.transaction_mode = a.transaction_mode],
              is_async |-> FALSE, extensions |-> ext]
    IN IF a.transaction_mode THEN [o EXCEPT !.self.constructed = "ready"]
       ELSE LET i == [_initialize_sqlalchemy(o, a) EXCEPT !.self.loops = 1]
            IN IF i.self.err # "" THEN [i EXCEPT !.self.constructed = "failed"]
               ELSE [_check_pgmq_ext(i) EXCEPT !.self.constructed = "ready"]

\* PGMQueue.__init__: the object, or the exception it raises.
init(a, ext) ==
    LET o == [self |-> [ClassFields EXCEPT !.args = a, !.transaction_mode = a.transaction_mode],
              is_async |-> FALSE, extensions |-> ext]
    IN IF a.transaction_mode THEN [o EXCEPT !.self.constructed = "ready"]
       ELSE LET i == _initialize_sqlalchemy(o, a)
            IN IF i.self.err # "" THEN [i EXCEPT !.self.constructed = "failed"]
               ELSE [_check_pgmq_ext(i) EXCEPT !.self.constructed = "ready"]

\* ---------------------------------------------------------------- actions
\* Sequences over S of length at most n.
Doc1 == JObj("", <<JStr("a", "x")>>)
Doc2 == JObj("", <<JStr("b", "y"), JStr("a", "x")>>)
DocLists == {<<>>, <<Doc1>>, <<Doc1, Doc2>>, <<Doc2, Doc1>>}
Qtys == {1, 2}

\* A call: what was asked, by whom and when, and what came back.
NoCall ==
    [op |-> "init", c |-> 0, queue |-> "", session |-> NoSession, commit |-> TRUE,
     ncommit |-> 0, nexec |-> 0, ret |-> NoRet, at |-> 0, vt |-> 0, qty |-> 0, delay |-> 0, id |-> 0,
     ids |-> <<>>, docs |-> <<>>, max_poll_seconds |-> 0, poll_interval_ms |-> 0,
     partitioned |-> FALSE, ncheck |-> 0, checks |-> 0]

Asked(op, queue, session, commit) ==
    [NoCall EXCEPT !.op = op, !.queue = queue, !.session = session, !.commit = commit,
                   !.at = now]

\* The history without the messages of queue q with these ids.
Without(h, q, ids) == {l \in h : l.queue # q \/ l.msg_id \notin ids}

\* The ids of the messages a call returned.
Got(ret) == {ret.msgs[i].msg_id : i \in 1..Len(ret.msgs)}

\* The leases a call returned, added to the history: who asked, when the
\* store leased, and for what visibility timeout. A set_vt takes the message out of it.
Leased(h, asked, c, ret) ==
    CASE asked.op \in {"read", "read_batch", "read_with_poll"} ->
            Without(h, asked.queue, Got(ret))
            \cup {[queue |-> asked.queue, msg_id |-> id, c |-> c, op |-> asked.op,
                   at |-> now, vt |-> VtOrDefault(asked.vt)] : id \in Got(ret)}
      [] asked.op = "set_vt" -> Without(h, asked.queue, Got(ret))
      [] OTHER -> h

\* The messages a call sent, added to the history: when, and with what
\* delay. A set_vt takes the message out of it.
Sent(h, asked, ret) ==
    CASE asked.op = "send" /\ ret.kind = "int" ->
            h \cup {[queue |-> asked.queue, msg_id |-> ret.val, at |-> asked.at,
                     delay |-> asked.delay]}
      [] asked.op = "send_batch" /\ ret.kind = "ids" ->
            h \cup {[queue |-> asked.queue, msg_id |-> ret.ids[i], at |-> asked.at,
                     delay |-> asked.delay] : i \in 1..Len(ret.ids)}
      [] asked.op = "set_vt" -> Without(h, asked.queue, Got(ret))
      [] OTHER -> h

\* The ids a delete, delete_batch, archive or archive_batch call reported
\* as removed, and the id of the message a pop returned.
Reported(asked, ret) ==
    CASE asked.op \in {"delete", "archive"} /\ ret.kind = "bool" /\ ret.flag -> {asked.id}
      [] asked.op \in {"delete_batch", "archive_batch"} /\ ret.kind = "ids" -> Range(ret.ids)
      [] asked.op = "pop" /\ ret.kind = "msg" -> Got(ret)
      [] OTHER -> {}

\* Those reports added to the history: n counts the calls that reported
\* the message so far, this one included.
Removed(h, asked, ret) ==
    h \cup {[queue |-> asked.queue, msg_id |-> id, op |-> asked.op,
             n |-> 1 + Cardinality({x \in h : x.queue = asked.queue /\ x.msg_id = id})] :
               id \in Reported(asked, ret)}

\* A call returns: the store and the caller's transaction are as it left them.
Result(r, asked, c) ==
    /\ tables' = r.tables
    /\ last' = [asked EXCEPT !.ret = r.ret, !.ncommit = r.ncommit, !.nexec = r.nexec, !.c = c,
                             !.checks = last.checks + asked.ncheck]
    /\ tx' = IF asked.session = NoSession THEN tx
             ELSE [tx EXCEPT ![asked.session] = (r.ncommit = 0)]
    /\ sent' = Sent(sent, asked, r.ret)
    /\ leases' = Leased(leases, asked, c, r.ret)
    /\ removed' = Removed(removed, asked, r.ret)

\* A call that runs from its statement to its return in one step.
Returned(r, asked, c) ==
    /\ calls < MaxCalls
    /\ calls' = calls + 1
    /\ Result(r, asked, c)
    /\ UNCHANGED <<self, is_async, now, pc, call, is_pg_partman_ext_checked, extensions>>

\* The session of the call of consumer c, for the lock check.
Sid(c, session) == inject_session(c, session)

Idle(c) == pc[c] = "idle"

Send(c, q, doc, delay, session, commit) ==
    /\ Idle(c)
    /\ ~PgBlocked(tables, Sid(c, session), "send", q, {})
    /\ Returned(send(tables, now, c, q, doc, delay, session, commit),
                [Asked("send", q, session, commit) EXCEPT !.docs = <<doc>>, !.delay = delay], c)

SendBatch(c, q, docs, delay, session, commit) ==
    /\ Idle(c)
    /\ ~PgBlocked(tables, Sid(c, session), "send_batch", q, {})
    /\ Returned(send_batch(tables, now, c, q, docs, delay, session, commit),
                [Asked("send_batch", q, session, commit) EXCEPT !.docs = docs, !.delay = delay], c)

Read(c, q, vt, session, commit) ==
    /\ Idle(c)
    /\ ~PgBlocked(tables, Sid(c, session), "read", q, {})
    /\ Returned(read(tables, now, c, q, vt, session, commit),
                [Asked("read", q, session, commit) EXCEPT !.vt = vt], c)

ReadBatch(c, q, qty, vt, session, commit) ==
    /\ Idle(c)
    /\ ~PgBlocked(tables, Sid(c, session), "read", q, {})
    /\ Returned(read_batch(tables, now, c, q, qty, vt, session, commit),
                [Asked("read_batch", q, session, commit) EXCEPT !.vt = vt, !.qty = qty], c)

SetVt(c, q, id, vt, session, commit) ==
    /\ Idle(c)
    /\ ~PgBlocked(tables, Sid(c, session), "set_vt", q, {id})
    /\ Returned(set_vt(tables, now, c, q, id, vt, session, commit),
                [Asked("set_vt", q, session, commit) EXCEPT !.vt = vt, !.id = id], c)

Pop(c, q, session, commit) ==
    /\ Idle(c)
    /\ ~PgBlocked(tables, Sid(c, session), "pop", q, {})
    /\ Returned(pop(tables, now, c, q, session, commit), Asked("pop", q, session, commit), c)

Delete(c, q, id, session, commit) ==
    /\ Idle(c)
    /\ ~PgBlocked(tables, Sid(c, session), "delete", q, {id})
    /\ Returned(delete(tables, now, c, q, id, session, commit),
                [Asked("delete", q, session, commit) EXCEPT !.id = id], c)

DeleteBatch(c, q, ids, session, commit) ==
    /\ Idle(c)
    /\ ~PgBlocked(tables, Sid(c, session), "delete_batch", q, Range(ids))
    /\ Returned(delete_batch(tables, now, c, q, ids, session, commit),
                [Asked("delete_batch", q, session, commit) EXCEPT !.ids = ids], c)

Archive(c, q, id, session, commit) ==
    /\ Idle(c)
    /\ ~PgBlocked(tables, Sid(c, session), "archive", q, {id})
    /\ Returned(archive(tables, now, c, q, id, session, commit),
                [Asked("archive", q, session, commit) EXCEPT !.id = id], c)

ArchiveBatch(c, q, ids, session, commit) ==
    /\ Idle(c)
    /\ ~PgBlocked(tables, Sid(c, session), "archive_batch", q, Range(ids))
    /\ Returned(archive_batch(tables, now, c, q, ids, session, commit),
                [Asked("archive_batch", q, session, commit) EXCEPT !.ids = ids], c)

Purge(c, q, session, commit) ==
    /\ Idle(c)
    /\ ~PgBlocked(tables, Sid(c, session), "purge", q, {})
    /\ Returned(purge(tables, now, c, q, session, commit), Asked("purge", q, session, commit), c)

CreateQueue(c, q, session, commit) ==
    /\ Idle(c)
    /\ ~PgBlocked(tables, Sid(c, session), "create", q, {})
    /\ Returned(create_queue(tables, now, c, q, FALSE, session, commit),
                Asked("create_queue", q, session, commit), c)

\* The partition and retention intervals, at their defaults.
PartitionInterval == 10000
RetentionInterval == 100000

\* create_partitioned_queue: the extension check first, then the statement
\* unless the check raised; nexec counts the statements of both.
CreatePartitioned(c, q, session, commit, fails) ==
    /\ Idle(c)
    /\ ~PgBlocked(tables, Sid(c, session), "create", q, {})
    /\ calls < MaxCalls
    /\ calls' = calls + 1
    /\ LET k == _check_pg_partman_ext(is_pg_partman_ext_checked, extensions, fails)
           r == IF k.err # "" THEN Done(tables, RetErr(k.err), 0, 0)
                ELSE create_partitioned_queue(tables, now, c, q, PartitionInterval,
                                              RetentionInterval, session, commit)
       IN /\ Result([r EXCEPT !.nexec = @ + k.nexec],
                    [Asked("create_partitioned_queue", q, session, commit) EXCEPT
                        !.partitioned = TRUE, !.ncheck = k.nexec], c)
          /\ is_pg_partman_ext_checked' = k.checked
          /\ extensions' = k.extensions
    /\ UNCHANGED <<self, is_async, now, pc, call>>

\* A call of create_partitioned_queue with the store at work.
CreatePartitionedQueue(c, q, session, commit) == CreatePartitioned(c, q, session, commit, FALSE)

\* A first call of create_partitioned_queue whose extension check the store fails.
CreatePartitionedQueueCheckFails(c, q, session, commit) ==
    ~is_pg_partman_ext_checked /\ CreatePartitioned(c, q, session, commit, TRUE)

ValidateQueueName(c, q, session) ==
    /\ Idle(c)
    /\ Returned(validate_queue_name(tables, now, c, q, session),
                Asked("validate_queue_name", q, session, FALSE), c)

\* drop_queue: for a partitioned queue the extension check first, then the
\* statement unless the check raised; nexec counts the statements of both.
Drop(c, q, partitioned, session, commit, fails) ==
    /\ Idle(c)
    /\ ~PgBlocked(tables, Sid(c, session), "drop", q, {})
    /\ calls < MaxCalls
    /\ calls' = calls + 1
    /\ LET k == IF partitioned
                THEN _check_pg_partman_ext(is_pg_partman_ext_checked, extensions, fails)
                ELSE [checked |-> is_pg_partman_ext_checked, extensions |-> extensions,
                      nexec |-> 0, err |-> ""]
           r == IF k.err # "" THEN Done(tables, RetErr(k.err), 0, 0)
                ELSE drop_queue(tables, now, c, q, partitioned, session, commit)
       IN /\ Result([r EXCEPT !.nexec = @ + k.nexec],
                    [Asked("drop_queue", q, session, commit) EXCEPT
                        !.partitioned = partitioned, !.ncheck = k.nexec], c)
          /\ is_pg_partman_ext_checked' = k.checked
          /\ extensions' = k.extensions
    /\ UNCHANGED <<self, is_async, now, pc, call>>

\* A call of drop_queue with the store at work.
DropQueue(c, q, partitioned, session, commit) == Drop(c, q, partitioned, session, commit, FALSE)

\* A first call of drop_queue(partitioned=True) whose extension check the store fails.
DropQueueCheckFails(c, q, session, commit) ==
    ~is_pg_partman_ext_checked /\ Drop(c, q, TRUE, session, commit, TRUE)

\* The call in flight of a consumer: what was asked, the session and the
\* statement of its session.execute, when the store's loop attempts next, and
\* held, a history: the ids the earlier attempts of the call leased.
NoPending ==
    [asked |-> NoCall, session |-> NoSession, stmt |-> [verb |-> "none"], wake |-> 0, held |-> {}]

\* read_with_poll up to its session.execute; the store's loop starts with an
\* attempt at once. The call ends within the clock's bound.
PollStart(c, q, vt, qty, max_poll_seconds, poll_interval_ms, session, commit) ==
    /\ Idle(c)
    /\ calls < MaxCalls
    /\ now + max_poll_seconds + poll_interval_ms \div 1000 <= MaxClock
    /\ LET x == read_with_poll(c, q, vt, qty, max_poll_seconds, poll_interval_ms, session)
       IN call' = [call EXCEPT ![c] =
                      [asked |-> [Asked("read_with_poll", q, session, commit) EXCEPT
                                     !.vt = vt, !.qty = qty,
                                     !.max_poll_seconds = max_poll_seconds,
                                     !.poll_interval_ms = poll_interval_ms],
                       session |-> x.session, stmt |-> x.stmt, wake |-> now, held |-> {}]]
    /\ pc' = [pc EXCEPT ![c] = "poll"]
    /\ calls' = calls + 1
    /\ UNCHANGED <<self, is_async, tables, now, tx, last, leases, sent, removed,
                   is_pg_partman_ext_checked, extensions>>

\* One attempt of the long-poll loop, and what follows it: the statement
\* fails and the call raises; or the attempt got qty rows or max_poll_seconds
\* have passed, and the call returns the rows of the attempt; or the loop
\* sleeps poll_interval_ms.
PollAttempt(c) ==
    /\ pc[c] = "poll"
    /\ call[c].wake <= now
    /\ LET p == call[c]
           r == session_execute(tables, now, p.session, p.stmt)
       IN IF r.err # ""
          THEN /\ Result(read_with_poll_raise(r, c, p.asked.session), p.asked, c)
               /\ pc' = [pc EXCEPT ![c] = "idle"]
               /\ call' = [call EXCEPT ![c] = NoPending]
          ELSE IF \/ Len(r.rows) >= p.stmt.qty
                  \/ now - p.asked.at >= p.stmt.max_poll_seconds
          THEN /\ Result(read_with_poll_rows(r, c, p.session, p.asked.session,
                                             p.asked.commit), p.asked, c)
               /\ pc' = [pc EXCEPT ![c] = "idle"]
               /\ call' = [call EXCEPT ![c] = NoPending]
          ELSE /\ tables' = r.tables
               /\ call' = [call EXCEPT ![c].wake = now + p.stmt.poll_interval_ms \div 1000,
                                        ![c].held = @ \cup {r.rows[i][1] : i \in 1..Len(r.rows)}]
               /\ UNCHANGED <<pc, last, tx, sent, leases, removed>>
    /\ UNCHANGED <<self, is_async, now, calls, is_pg_partman_ext_checked, extensions>>

\* The caller commits the transaction of its own session.
CallerCommit(c) ==
    /\ Idle(c)
    /\ tx[CallerSession(c)]
    /\ tables' = session_commit(tables, CallerSession(c))
    /\ tx' = [tx EXCEPT ![CallerSession(c)] = FALSE]
    /\ UNCHANGED <<self, is_async, now, last, pc, call, leases, sent, calls, removed,
                   is_pg_partman_ext_checked, extensions>>

\* The caller rolls the transaction of its own session back.
CallerRollback(c) ==
    /\ Idle(c)
    /\ tx[CallerSession(c)]
    /\ tables' = PgRollback(tables, CallerSession(c))
    /\ tx' = [tx EXCEPT ![CallerSession(c)] = FALSE]
    /\ UNCHANGED <<self, is_async, now, last, pc, call, leases, sent, calls, removed,
                   is_pg_partman_ext_checked, extensions>>

Metrics(c, q, session) ==
    /\ Idle(c)
    /\ Returned(metrics(tables, now, c, q, session), Asked("metrics", q, session, FALSE), c)

\* metrics_all up to the listing step of the store's function: the queues
\* it will go over.
MetricsAllStart(c, session) ==
    /\ Idle(c)
    /\ calls < MaxCalls
    /\ LET x == metrics_all(c, session)
       IN call' = [call EXCEPT ![c] =
                      [asked |-> Asked("metrics_all", "", session, FALSE),
                       session |-> x.session,
                       stmt |-> [verb |-> x.stmt.verb,
                                 listed |-> PgListQueues(tables, x.session)],
                       wake |-> now, held |-> {}]]
    /\ pc' = [pc EXCEPT ![c] = "metrics_all"]
    /\ calls' = calls + 1
    /\ UNCHANGED <<self, is_async, tables, now, tx, last, leases, sent, removed,
                   is_pg_partman_ext_checked, extensions>>

\* The step of the store's function over the queues listed, and the return
\* of metrics_all.
MetricsAllFinish(c) ==
    /\ pc[c] = "metrics_all"
    /\ \E fails \in BOOLEAN :
          LET p == call[c]
              r == PgMetricsAll(tables, now, p.session, p.stmt.listed, fails)
          IN Result(metrics_all_rows(r, c, p.asked.session), p.asked, c)
    /\ pc' = [pc EXCEPT ![c] = "idle"]
    /\ call' = [call EXCEPT ![c] = NoPending]
    /\ UNCHANGED <<self, is_async, now, calls, is_pg_partman_ext_checked, extensions>>

\* The constructor runs on the arguments it was called with.
Construct ==
    /\ self.constructed = "new"
    /\ LET o == init(self.args, extensions)
       IN /\ self' = o.self
          /\ is_async' = o.is_async
          /\ extensions' = o.extensions
    /\ UNCHANGED <<tables, now, tx, last, pc, call, leases, sent, calls, removed,
                   is_pg_partman_ext_checked>>

\* The store's clock advances by one second; an attempt that is due runs first.
Tick ==
    /\ now < MaxClock
    /\ \A c \in Consumers : pc[c] = "poll" => now < call[c].wake
    /\ now' = now + 1
    /\ UNCHANGED <<self, is_async, tables, tx, last, pc, call, leases, sent, calls, removed,
                   is_pg_partman_ext_checked, extensions>>

Init ==
    /\ \E d \in Dialects :
          LET o == init([NoArgs EXCEPT !.dsn = Dsn(d)], {"pgmq"})
          IN self = o.self /\ is_async = o.is_async /\ extensions = o.extensions
    /\ tables = [q \in QueueNames |-> IF q = "q1" THEN [NoTable EXCEPT !.st = "live"] ELSE NoTable]
    /\ now = 0
    /\ tx = [s \in {CallerSession(c) : c \in Consumers} |-> FALSE]
    /\ last = NoCall
    /\ pc = [c \in Consumers |-> "idle"]
    /\ call = [c \in Consumers |-> NoPending]
    /\ leases = {}
    /\ sent = {}
    /\ calls = 0
    /\ removed = {}
    /\ is_pg_partman_ext_checked = FALSE

\* One caller, every call on a session the client opens itself and with
\* commit left at its default, each call from its statement to its commit in
\* one step: sending, reading and time.
Next ==
    \/ \E dl \in Delays : Send(1, "q1", Doc1, dl, NoSession, TRUE)
    \/ \E vt \in VTs \cup {NoVt} : Read(1, "q1", vt, NoSession, TRUE)
    \/ \E n \in Qtys : ReadBatch(1, "q1", n, 2, NoSession, TRUE)
    \/ Delete(1, "q1", 1, NoSession, TRUE)
    \/ \E vt \in VTs : SetVt(1, "q1", 2, vt, NoSession, TRUE)
    \/ Tick

Spec == Init /\ [][Next]_vars

\* One caller sending every document to a queue it reads and purges.
NextRoundTrip ==
    \/ \E doc \in Docs : Send(1, "q1", doc, 0, NoSession, TRUE)
    \/ \E vt \in VTs : Read(1, "q1", vt, NoSession, TRUE)
    \/ Purge(1, "q1", NoSession, TRUE)

SpecRoundTrip == Init /\ [][NextRoundTrip]_vars

BatchIds == {<<>>, <<1>>, <<2>>, <<1, 2>>, <<2, 3>>, <<3, 1>>}

\* One caller sending and deleting batches.
NextBatch ==
    \/ \E docs \in DocLists : SendBatch(1, "q1", docs, 0, NoSession, TRUE)
    \/ \E ids \in BatchIds : DeleteBatch(1, "q1", ids, NoSession, TRUE)

SpecBatch == Init /\ [][NextBatch]_vars

PollSeconds == {0, 1, 2}
PollIntervals == {1000, 2000}

MaxTxCalls == 3

\* One caller making every call on a session of its own, with commit true
\* and false, and committing or rolling back that session itself.
NextTx ==
    \/ /\ calls < MaxTxCalls
       /\ \E commit \in BOOLEAN :
             \/ Send(1, "q1", Doc1, 0, CallerSession(1), commit)
             \/ SendBatch(1, "q1", <<Doc1, Doc2>>, 0, CallerSession(1), commit)
             \/ Read(1, "q1", 0, CallerSession(1), commit)
             \/ ReadBatch(1, "q1", 2, 0, CallerSession(1), commit)
             \/ PollStart(1, "q1", 0, 1, 0, 1000, CallerSession(1), commit)
             \/ SetVt(1, "q1", 1, 0, CallerSession(1), commit)
             \/ Pop(1, "q1", CallerSession(1), commit)
             \/ Delete(1, "q1", 1, CallerSession(1), commit)
             \/ DeleteBatch(1, "q1", <<1, 2>>, CallerSession(1), commit)
             \/ Archive(1, "q1", 1, CallerSession(1), commit)
             \/ ArchiveBatch(1, "q1", <<1, 2>>, CallerSession(1), commit)
             \/ Purge(1, "q1", CallerSession(1), commit)
             \/ \E q \in QueueNames : CreateQueue(1, q, CallerSession(1), commit)
             \/ \E q \in QueueNames : DropQueue(1, q, FALSE, CallerSession(1), commit)
    \/ PollAttempt(1)
    \/ CallerCommit(1)
    \/ CallerRollback(1)

SpecTx == Init /\ [][NextTx]_vars

\* Consumer 1 polls a queue consumer 2 sends to, while time passes.
NextPoll ==
    \/ \E n \in Qtys, m \in PollSeconds, i \in PollIntervals :
          PollStart(1, "q1", 2, n, m, i, NoSession, TRUE)
    \/ PollAttempt(1)
    \/ \E dl \in Delays : Send(2, "q1", Doc1, dl, NoSession, TRUE)
    \/ Tick

SpecPoll == Init /\ [][NextPoll]_vars

\* A session of the client's own with commit left at its default, or the
\* caller's session with the commit left to the caller.
Modes(c) == {[session |-> NoSession, commit |-> TRUE], [session |-> CallerSession(c), commit |-> FALSE]}

\* Two consumers lease from one queue with read, read_batch and
\* read_with_poll; a lease in the caller's session holds its rows locked
\* until the caller commits, and the other consumer's leases run meanwhile.
NextLease ==
    \/ Send(1, "q1", Doc1, 0, NoSession, TRUE)
    \/ \E c \in Consumers : \E m \in Modes(c) : Read(c, "q1", 2, m.session, m.commit)
    \/ \E c \in Consumers : ReadBatch(c, "q1", 1, 2, NoSession, TRUE)
    \/ \E m \in Modes(2) : PollStart(2, "q1", 2, 1, 1, 1000, m.session, m.commit)
    \/ PollAttempt(2)
    \/ \E c \in Consumers : CallerCommit(c)
    \/ Tick

SpecLease == Init /\ [][NextLease]_vars

\* One caller sends to a queue, leases from it with every lease call, and
\* deletes, archives and purges; a second queue is created and sent to. All
\* within one second of the store's clock: a message sent with a delay or
\* leased with a visibility timeout stays invisible.
NextArchive ==
    \/ \E dl \in Delays : Send(1, "q1", Doc1, dl, NoSession, TRUE)
    \/ Send(1, "q2", Doc2, 0, NoSession, TRUE)
    \/ CreateQueue(1, "q2", NoSession, TRUE)
    \/ Read(1, "q1", 0, NoSession, TRUE)
    \/ ReadBatch(1, "q1", 2, 2, NoSession, TRUE)
    \/ PollStart(1, "q1", 0, 1, 0, 1000, NoSession, TRUE)
    \/ PollAttempt(1)
    \/ Pop(1, "q1", NoSession, TRUE)
    \/ \E id \in {1, 2} : Delete(1, "q1", id, NoSession, TRUE)
    \/ \E id \in {1, 2} : Archive(1, "q1", id, NoSession, TRUE)
    \/ ArchiveBatch(1, "q1", <<2, 3>>, NoSession, TRUE)
    \/ \E q \in {"q1", "q2"} : Purge(1, q, NoSession, TRUE)

SpecArchive == Init /\ [][NextArchive]_vars

\* Two consumers delete and archive the same two messages, one at a time
\* and in batches, each on a session of the client's own or in a
\* transaction of the caller's that the caller commits later; a statement
\* that names a row another transaction has removed waits for its commit.
NextTerminal ==
    \/ SendBatch(1, "q1", <<Doc1, Doc2>>, 0, NoSession, TRUE)
    \/ \E c \in Consumers : \E m \in Modes(c) :
          \/ \E id \in {1, 2} : Delete(c, "q1", id, m.session, m.commit)
          \/ DeleteBatch(c, "q1", <<1, 2>>, m.session, m.commit)
          \/ \E id \in {1, 2} : Archive(c, "q1", id, m.session, m.commit)
          \/ ArchiveBatch(c, "q1", <<1, 2>>, m.session, m.commit)
    \/ \E c \in Consumers : CallerCommit(c)

SpecTerminal == Init /\ [][NextTerminal]_vars

\* One caller makes every call on a queue name of 48 and of 49 characters.
NextNames ==
    \E q \in {Name48, Name49} :
        \/ CreateQueue(1, q, NoSession, TRUE)
        \/ CreatePartitionedQueue(1, q, NoSession, TRUE)
        \/ DropQueue(1, q, FALSE, NoSession, TRUE)
        \/ Purge(1, q, NoSession, TRUE)
        \/ ValidateQueueName(1, q, NoSession)
        \/ Send(1, q, Doc1, 0, NoSession, TRUE)
        \/ SendBatch(1, q, <<Doc1, Doc2>>, 0, NoSession, TRUE)
        \/ Read(1, q, 0, NoSession, TRUE)
        \/ ReadBatch(1, q, 2, 0, NoSession, TRUE)
        \/ PollStart(1, q, 0, 1, 0, 1000, NoSession, TRUE)
        \/ PollAttempt(1)
        \/ SetVt(1, q, 1, 0, NoSession, TRUE)
        \/ Pop(1, q, NoSession, TRUE)
        \/ Delete(1, q, 1, NoSession, TRUE)
        \/ DeleteBatch(1, q, <<1, 2>>, NoSession, TRUE)
        \/ Archive(1, q, 1, NoSession, TRUE)
        \/ ArchiveBatch(1, q, <<1, 2>>, NoSession, TRUE)

SpecNames == Init /\ [][NextNames]_vars

\* One caller makes every call on a queue that is not there unless the
\* caller creates it, on a session of the client's own and on its own
\* session, with commit true and false; and deletes the empty batch.
NextErr ==
    \/ \E session \in {NoSession, CallerSession(1)}, commit \in BOOLEAN :
          \/ CreateQueue(1, "q2", session, commit)
          \/ DropQueue(1, "q2", FALSE, session, commit)
          \/ Send(1, "q2", Doc1, 0, session, commit)
          \/ SendBatch(1, "q2", <<Doc1, Doc2>>, 0, session, commit)
          \/ Read(1, "q2", 0, session, commit)
          \/ ReadBatch(1, "q2", 2, 0, session, commit)
          \/ PollStart(1, "q2", 0, 1, 0, 1000, session, commit)
          \/ SetVt(1, "q2", 1, 0, session, commit)
          \/ Pop(1, "q2", session, commit)
          \/ Delete(1, "q2", 1, session, commit)
          \/ \E q \in {"q1", "q2"} : DeleteBatch(1, q, <<>>, session, commit)
          \/ Archive(1, "q2", 1, session, commit)
          \/ ArchiveBatch(1, "q2", <<1, 2>>, session, commit)
          \/ Purge(1, "q2", session, commit)
    \/ PollAttempt(1)
    \/ CallerCommit(1)
    \/ CallerRollback(1)

SpecErr == Init /\ [][NextErr]_vars

\* The threads of one client: the event loop of the client (self.loop) is
\* running while the coroutine of a thread's call waits for the store.
Running(p) == \E t \in DOMAIN p : p[t] # "idle"

\* self.loop.run_until_complete(coroutine): the loop runs the coroutine to
\* its end and hands back what it returns or raises; a loop that is already
\* running raises RuntimeError and the coroutine never starts.
run_until_complete(tb, p, r) ==
    IF Running(p) THEN Done(tb, RetErr("RuntimeError"), 0, 0) ELSE r

\* A thread calls send.
ThreadSend(t, q, doc, session, commit) ==
    /\ Idle(t)
    /\ ~PgBlocked(tables, Sid(t, session), "send", q, {})
    /\ Returned(IF is_async
                THEN run_until_complete(tables, pc,
                                        send(tables, now, t, q, doc, 0, session, commit))
                ELSE send(tables, now, t, q, doc, 0, session, commit),
                [Asked("send", q, session, commit) EXCEPT !.docs = <<doc>>], t)

\* A thread calls read.
ThreadRead(t, q, vt, session, commit) ==
    /\ Idle(t)
    /\ ~PgBlocked(tables, Sid(t, session), "read", q, {})
    /\ Returned(IF is_async
                THEN run_until_complete(tables, pc,
                                        read(tables, now, t, q, vt, session, commit))
                ELSE read(tables, now, t, q, vt, session, commit),
                [Asked("read", q, session, commit) EXCEPT !.vt = vt], t)

\* A thread calls delete.
ThreadDelete(t, q, id, session, commit) ==
    /\ Idle(t)
    /\ ~PgBlocked(tables, Sid(t, session), "delete", q, {id})
    /\ Returned(IF is_async
                THEN run_until_complete(tables, pc,
                                        delete(tables, now, t, q, id, session, commit))
                ELSE delete(tables, now, t, q, id, session, commit),
                [Asked("delete", q, session, commit) EXCEPT !.id = id], t)

\* A thread calls read_with_poll: its coroutine starts unless the loop is
\* running.
ThreadPollStart(t, q, vt, qty, max_poll_seconds, poll_interval_ms, session, commit) ==
    IF is_async /\ Running(pc)
    THEN /\ Idle(t)
         /\ Returned(run_until_complete(tables, pc, NoRet),
                     [Asked("read_with_poll", q, session, commit) EXCEPT
                         !.vt = vt, !.qty = qty, !.max_poll_seconds = max_poll_seconds,
                         !.poll_interval_ms = poll_interval_ms], t)
    ELSE PollStart(t, q, vt, qty, max_poll_seconds, poll_interval_ms, session, commit)

\* Two threads of one client send, read and long-poll on their own sessions
\* while time passes.
NextThreads ==
    \/ \E t \in Consumers : ThreadSend(t, "q1", Doc1, CallerSession(t), TRUE)
    \/ \E t \in Consumers : ThreadRead(t, "q1", 1, CallerSession(t), TRUE)
    \/ \E t \in Consumers : ThreadPollStart(t, "q1", 1, 1, 1, 1000, CallerSession(t), TRUE)
    \/ \E t \in Consumers : PollAttempt(t)
    \/ Tick

SpecThreads == Init /\ [][NextThreads]_vars

\* Thread 1 of a client long-polls a queue on its own session, with a wait
\* between the attempts; thread 2 of the same client sends to the queue and
\* deletes from it meanwhile.
NextPollWait ==
    \/ \E m \in {1, 2} : ThreadPollStart(1, "q1", 1, 2, m, 1000, CallerSession(1), TRUE)
    \/ PollAttempt(1)
    \/ ThreadSend(2, "q1", Doc1, CallerSession(2), TRUE)
    \/ ThreadDelete(2, "q1", 1, CallerSession(2), TRUE)
    \/ Tick

SpecPollWait == Init /\ [][NextPollWait]_vars

\* One caller creates and drops plain and partitioned queues, and sends,
\* reads, polls, deletes, archives and purges in between, every call without
\* a session of the caller's.
NextPartman ==
    \/ \E q \in {"q2", Name49} : CreatePartitionedQueue(1, q, NoSession, TRUE)
    \/ \E q \in {"q1", "q2"}, pt \in BOOLEAN : DropQueue(1, q, pt, NoSession, TRUE)
    \/ CreateQueue(1, "q2", NoSession, TRUE)
    \/ ValidateQueueName(1, "q2", NoSession)
    \/ Send(1, "q1", Doc1, 0, NoSession, TRUE)
    \/ SendBatch(1, "q1", <<Doc1, Doc2>>, 0, NoSession, TRUE)
    \/ Read(1, "q1", 0, NoSession, TRUE)
    \/ ReadBatch(1, "q1", 0, 2, NoSession, TRUE)
    \/ PollStart(1, "q1", 0, 1, 0, 1000, NoSession, TRUE)
    \/ PollAttempt(1)
    \/ SetVt(1, "q1", 1, 2, NoSession, TRUE)
    \/ Pop(1, "q1", NoSession, TRUE)
    \/ Delete(1, "q1", 1, NoSession, TRUE)
    \/ DeleteBatch(1, "q1", <<1, 2>>, NoSession, TRUE)
    \/ Archive(1, "q1", 1, NoSession, TRUE)
    \/ ArchiveBatch(1, "q1", <<1, 2>>, NoSession, TRUE)
    \/ Purge(1, "q1", NoSession, TRUE)

SpecPartman == Init /\ [][NextPartman]_vars

\* The arguments a constructor is called with.
ConstructorArgs ==
    [transaction_mode : BOOLEAN,
     dsn : {""} \cup {Dsn(d) : d \in Dialects},
     engine : {""} \cup Dialects,
     session_maker : {""} \cup Dialects,
     dialect : {""} \cup Dialects,
     host : BOOLEAN, port : BOOLEAN, user : BOOLEAN, password : BOOLEAN, database : BOOLEAN]

\* Before the constructor has run: the class attributes, and a store with
\* the extensions it happens to have.
InitNew(args, exts) ==
    /\ \E a \in args : self = [ClassFields EXCEPT !.args = a]
    /\ is_async = FALSE
    /\ extensions \in exts
    /\ tables = [q \in QueueNames |-> IF q = "q1" THEN [NoTable EXCEPT !.st = "live"] ELSE NoTable]
    /\ now = 0
    /\ tx = [s \in {CallerSession(c) : c \in Consumers} |-> FALSE]
    /\ last = NoCall
    /\ pc = [c \in Consumers |-> "idle"]
    /\ call = [c \in Consumers |-> NoPending]
    /\ leases = {}
    /\ sent = {}
    /\ calls = 0
    /\ removed = {}
    /\ is_pg_partman_ext_checked = FALSE

InitConstruct == InitNew(ConstructorArgs, {{"pgmq"}})

\* A constructor call on any arguments.
NextConstruct == Construct

SpecConstruct == InitConstruct /\ [][NextConstruct]_vars

\* One caller sends, leases and removes messages and sets their vt, on a
\* session of the client's own or on its own session, while time passes.
NextSetVt ==
    \/ \E dl \in Delays : Send(1, "q1", Doc1, dl, NoSession, TRUE)
    \/ Read(1, "q1", 2, NoSession, TRUE)
    \/ \E id \in 1..2, vt \in VTs, s \in {NoSession, CallerSession(1)} :
          SetVt(1, "q1", id, vt, s, TRUE)
    \/ Delete(1, "q1", 1, NoSession, TRUE)
    \/ Archive(1, "q1", 1, NoSession, TRUE)
    \/ Pop(1, "q1", NoSession, TRUE)
    \/ Purge(1, "q1", NoSession, TRUE)
    \/ Tick

SpecSetVt == Init /\ [][NextSetVt]_vars

\* Two consumers pop and lease from one queue, each on a session of the
\* client's own or in a transaction of the caller's that the caller commits
\* later; a lease makes the message visible again at once.
NextPop ==
    \/ Send(1, "q1", Doc1, 0, NoSession, TRUE)
    \/ \E c \in Consumers : \E m \in Modes(c) :
          \/ Pop(c, "q1", m.session, m.commit)
          \/ Read(c, "q1", 0, m.session, m.commit)
    \/ \E c \in Consumers : ReadBatch(c, "q1", 0, 2, NoSession, TRUE)
    \/ PollStart(2, "q1", 0, 1, 0, 1000, CallerSession(2), FALSE)
    \/ PollAttempt(2)
    \/ \E c \in Consumers : CallerCommit(c)

SpecPop == Init /\ [][NextPop]_vars

\* One caller asks an empty and a filled queue, and a queue that is not
\* there, for messages and metrics, on a session of the client's own.
NextAbsent ==
    \/ Send(1, "q1", Doc1, 2, NoSession, TRUE)
    \/ Read(1, "q1", 2, NoSession, TRUE)
    \/ ReadBatch(1, "q1", 2, 2, NoSession, TRUE)
    \/ \E s \in {NoSession, CallerSession(1)} : PollStart(1, "q1", 2, 1, 0, 1000, s, TRUE)
    \/ PollAttempt(1)
    \/ Pop(1, "q1", NoSession, TRUE)
    \/ \E id \in 1..2, s \in {NoSession, CallerSession(1)} : SetVt(1, "q1", id, 0, s, TRUE)
    \/ \E q \in {"q1", "q2"} : Metrics(1, q, NoSession)
    \/ \E pt \in BOOLEAN : DropQueue(1, "q1", pt, NoSession, TRUE)

SpecAbsent == Init /\ [][NextAbsent]_vars

\* Consumer 1 asks for the metrics of all queues while consumer 2 creates
\* and drops a queue and sends.
NextMetricsAll ==
    \/ \E s \in {NoSession, CallerSession(1)} : MetricsAllStart(1, s)
    \/ MetricsAllFinish(1)
    \/ CreateQueue(2, "q2", NoSession, TRUE)
    \/ \E q \in {"q1", "q2"} : DropQueue(2, q, FALSE, NoSession, TRUE)
    \/ \E q \in {"q1", "q2"}, dl \in Delays : Send(2, q, Doc1, dl, NoSession, TRUE)
    \/ Tick

SpecMetricsAll == Init /\ [][NextMetricsAll]_vars

\* The constructor was called with a dsn, outside transaction mode, on a
\* store with any of the two extensions.
InitExtensions ==
    InitNew({[NoArgs EXCEPT !.dsn = Dsn(d)] : d \in Dialects}, SUBSET {"pgmq", "pg_partman"})

\* The client is constructed, and the store has the functions of pgmq.
Ready == self.constructed = "ready" /\ "pgmq" \in extensions

\* The constructor, and then plain and partitioned queues created and
\* dropped and messages sent and read.
NextExtensions ==
    \/ Construct
    \/ Ready /\ CreateQueue(1, "q2", NoSession, TRUE)
    \/ Ready /\ CreatePartitionedQueue(1, "q2", NoSession, TRUE)
    \/ Ready /\ \E pt \in BOOLEAN : DropQueue(1, "q2", pt, NoSession, TRUE)
    \/ Ready /\ \E q \in {"q1", "q2"} : Send(1, q, Doc1, 0, NoSession, TRUE)
    \/ Ready /\ \E q \in {"q1", "q2"} : Read(1, q, 2, NoSession, TRUE)
    \/ Ready /\ \E q \in {"q1", "q2"} : Metrics(1, q, NoSession)

SpecExtensions == InitExtensions /\ [][NextExtensions]_vars

\* The constructor was called with a dsn, an engine or a session maker of
\* either dialect, in transaction mode or not.
InitMode ==
    InitNew({[x EXCEPT !.transaction_mode = t] :
                x \in {[NoArgs EXCEPT !.dsn = Dsn(d)] : d \in Dialects}
                      \cup {[NoArgs EXCEPT !.engine = d] : d \in Dialects}
                      \cup {[NoArgs EXCEPT !.session_maker = d] : d \in Dialects},
                t \in BOOLEAN},
            {{"pgmq", "pg_partman"}})

\* The client is constructed outside transaction mode.
Connected == self.constructed = "ready" /\ ~self.transaction_mode

\* The constructor, and then the calls of one caller on the client it made,
\* with and without a session of the caller's.
NextMode ==
    \/ Construct
    \/ /\ Connected
       /\ \E s \in {NoSession, CallerSession(1)} :
             \/ Send(1, "q1", Doc1, 0, s, TRUE)
             \/ Read(1, "q1", 1, s, TRUE)
             \/ PollStart(1, "q1", 1, 1, 1, 1000, s, TRUE)
             \/ SetVt(1, "q1", 1, 0, s, TRUE)
             \/ CreatePartitionedQueue(1, "q2", s, TRUE)
    \/ PollAttempt(1)
    \/ Tick

SpecMode == InitMode /\ [][NextMode]_vars

\* One caller makes the calls that change the store with no session of its
\* own, with commit true and false.
NextAutocommit ==
    \/ \E commit \in BOOLEAN :
          \/ Send(1, "q1", Doc1, 0, NoSession, commit)
          \/ Read(1, "q1", 1, NoSession, commit)
          \/ SetVt(1, "q1", 1, 2, NoSession, commit)
          \/ Delete(1, "q1", 1, NoSession, commit)
          \/ Archive(1, "q1", 2, NoSession, commit)
          \/ CreateQueue(1, "q2", NoSession, commit)
          \/ DropQueue(1, "q2", FALSE, NoSession, commit)

SpecAutocommit == Init /\ [][NextAutocommit]_vars

\* One caller sends, leases with every lease call, sets a vt, deletes and
\* asks for the metrics, with no session of its own, while time passes.
NextReadCt ==
    \/ Send(1, "q1", Doc1, 0, NoSession, TRUE)
    \/ Read(1, "q1", 1, NoSession, TRUE)
    \/ ReadBatch(1, "q1", 2, 1, NoSession, TRUE)
    \/ PollStart(1, "q1", 1, 1, 0, 1000, CallerSession(1), TRUE)
    \/ PollAttempt(1)
    \/ SetVt(1, "q1", 1, 0, NoSession, TRUE)
    \/ Delete(1, "q1", 1, NoSession, TRUE)
    \/ Metrics(1, "q1", NoSession)
    \/ Tick

SpecReadCt == Init /\ [][NextReadCt]_vars

\* One caller sends one message and batches, also with a commit it leaves
\* out, and removes messages in every way, with no session of its own.
NextIds ==
    \/ \E commit \in BOOLEAN : Send(1, "q1", Doc1, 0, NoSession, commit)
    \/ SendBatch(1, "q1", <<Doc1, Doc2>>, 0, NoSession, TRUE)
    \/ Delete(1, "q1", 1, NoSession, TRUE)
    \/ DeleteBatch(1, "q1", <<1, 2>>, NoSession, TRUE)
    \/ Archive(1, "q1", 2, NoSession, TRUE)
    \/ ArchiveBatch(1, "q1", <<2, 3>>, NoSession, TRUE)
    \/ Pop(1, "q1", NoSession, TRUE)
    \/ Purge(1, "q1", NoSession, TRUE)

SpecIds == Init /\ [][NextIds]_vars

\* One caller creates a partitioned queue and drops a queue, partitioned or
\* not, and sends and reads; the store may fail the first extension check.
NextCheckFails ==
    \/ CreatePartitionedQueue(1, "q2", NoSession, TRUE)
    \/ CreatePartitionedQueueCheckFails(1, "q2", NoSession, TRUE)
    \/ \E pt \in BOOLEAN : DropQueue(1, "q1", pt, NoSession, TRUE)
    \/ DropQueueCheckFails(1, "q1", NoSession, TRUE)
    \/ \E q \in {"q1", "q2"} : Send(1, q, Doc1, 0, NoSession, TRUE)
    \/ \E q \in {"q1", "q2"} : Read(1, q, 1, NoSession, TRUE)

SpecCheckFails == Init /\ [][NextCheckFails]_vars

\* The constructor was called with transaction_mode=True, with a dsn of
\* either dialect, an asyncpg session maker or nothing to connect with, on a
\* store with or without the extensions.
InitTransactionMode ==
    InitNew({[x EXCEPT !.transaction_mode = TRUE] :
                x \in {NoArgs, [NoArgs EXCEPT !.session_maker = "asyncpg"]}
                      \cup {[NoArgs EXCEPT !.dsn = Dsn(d)] : d \in Dialects}},
            {{}, {"pgmq"}})

\* The constructor, and then the calls of one caller on its own session,
\* which it commits or rolls back itself.
NextTransactionMode ==
    \/ Construct
    \/ /\ Ready
       /\ calls < MaxTxCalls
       /\ \E commit \in BOOLEAN :
             \/ Send(1, "q1", Doc1, 0, CallerSession(1), commit)
             \/ Read(1, "q1", 1, CallerSession(1), commit)
             \/ SetVt(1, "q1", 1, 0, CallerSession(1), commit)
             \/ \E q \in {"q1", Name49} : Delete(1, q, 1, CallerSession(1), commit)
             \/ \E ids \in {<<>>, <<1, 2>>} : DeleteBatch(1, "q1", ids, CallerSession(1), commit)
             \/ PollStart(1, "q1", 1, 1, 0, 1000, CallerSession(1), commit)
    \/ PollAttempt(1)
    \/ CallerCommit(1)
    \/ CallerRollback(1)

SpecTransactionMode == InitTransactionMode /\ [][NextTransactionMode]_vars

\* The visibility timeouts of a poll: shorter than the wait between two
\* attempts, as long, and longer than the whole call.
PollVts == {1, 2, 3}

\* One caller polls for two messages at a time with a wait between the
\* attempts, in a session of the client's or its own, while messages arrive.
NextRefetch ==
    \/ \E v \in PollVts, m \in {1, 2}, s \in {NoSession, CallerSession(1)} :
          PollStart(1, "q1", v, 2, m, 1000, s, TRUE)
    \/ PollAttempt(1)
    \/ Send(2, "q1", Doc1, 0, NoSession, TRUE)
    \/ Tick

SpecRefetch == Init /\ [][NextRefetch]_vars

\* One caller polls a queue, in a session of the client's or its own, while
\* another drops the queue, creates it again and sends to it.
NextPollErr ==
    \/ \E q \in {"q1", "q2"}, m \in PollSeconds, s \in {NoSession, CallerSession(1)} :
          PollStart(1, q, 2, 1, m, 1000, s, TRUE)
    \/ PollAttempt(1)
    \/ DropQueue(2, "q1", FALSE, NoSession, TRUE)
    \/ CreateQueue(2, "q1", NoSession, TRUE)
    \/ Send(2, "q1", Doc1, 0, NoSession, TRUE)
    \/ Tick

SpecPollErr == Init /\ [][NextPollErr]_vars

\* ----------------------------------------------------------------- claims
\* This step is a call of op returning.
Called(op) == calls' = calls + 1 /\ pc' = pc /\ last'.op = op

\* The ids of the rows of queue q whose vt has passed.
VisibleIds(q) == {r.msg_id : r \in {x \in tables[q].rows : x.vt <= now}}

MinOf(S) == CHOOSE x \in S : \A y \in S : x <= y

\* The call returned exactly the message id.
Returns(ret, id) == ret.kind = "msg" /\ Got(ret) = {id}

\* The messages of the history still in queue q and never leased: sent.
Unleased(q) ==
    {s \in sent : s.queue = q /\ \E r \in tables[q].rows : r.msg_id = s.msg_id /\ r.read_ct = 0}

\* This step is the return of a lease call of consumer c.
LeaseReturned(c) ==
    /\ last'.c = c
    /\ \/ Called("read") \/ Called("read_batch")
       \/ pc[c] = "poll" /\ pc'[c] = "idle"

\* C1: once a lease has returned a message with visibility timeout vt, no
\* lease of another consumer returns that message until vt seconds have
\* passed on the store's clock, however the consumers' read, read_batch and
\* read_with_poll calls and their commits interleave.
C1_LeaseExclusive ==
    [][\A c \in Consumers : LeaseReturned(c) =>
          \A l \in leases :
              l.queue = last'.queue /\ l.c # c /\ now < l.at + l.vt
              => l.msg_id \notin Got(last'.ret)]_vars

\* While consumer 1 held message 1, leased in a transaction it had not
\* committed yet, a read_with_poll of consumer 2 returned message 2.
C1_Witness ==
    /\ last.c = 2 /\ last.op = "read_with_poll" /\ Got(last.ret) = {2}
    /\ tx[CallerSession(1)]
    /\ \E l \in leases : l.c = 1 /\ l.msg_id = 1 /\ now < l.at + l.vt

\* C3: send of a document to a queue with no message, then read of the
\* queue, returns the message with the id send returned and a payload
\* structurally equal to the document, in both execution modes.
C3_RoundTrip ==
    [][/\ Called("read") /\ last.op = "send" /\ last.ret.kind = "int"
       /\ last'.queue = last.queue
       /\ Cardinality(tables[last.queue].rows) = 1
       => /\ Returns(last'.ret, last.ret.val)
          /\ StructEq(last'.ret.msgs[1].message, last.docs[1])]_vars

\* In the suspending mode the second message sent, a document with an
\* array nested in an object, came back from the read after its send.
C3_Witness ==
    /\ is_async /\ last.op = "read" /\ Returns(last.ret, 2)
    /\ last.ret.msgs[1].read_ct = 1
    /\ last.ret.msgs[1].message.kids # <<>>
    /\ last.ret.msgs[1].message.kids[1].tag = "obj"
    /\ last.ret.msgs[1].message.kids[1].kids[1].tag = "arr"

\* C4: send_batch of n documents returns n distinct ids, the i-th the id of
\* the message that carries the i-th document, in both execution modes.
C4_SendBatchPositional ==
    [][Called("send_batch") /\ last'.queue = "q1" =>
          /\ last'.ret.kind = "ids"
          /\ Len(last'.ret.ids) = Len(last'.docs)
          /\ Cardinality(Range(last'.ret.ids)) = Len(last'.docs)
          /\ \A i \in 1..Len(last'.docs) :
                /\ \A r \in tables["q1"].rows : r.msg_id # last'.ret.ids[i]
                /\ \E r \in tables'["q1"].rows :
                      /\ r.msg_id = last'.ret.ids[i]
                      /\ StructEq(r.message, last'.docs[i])]_vars

\* A second batch of two different documents was sent in the suspending mode.
C4_Witness ==
    /\ is_async /\ last.op = "send_batch" /\ last.ret.kind = "ids"
    /\ Len(last.docs) = 2 /\ last.docs[1] # last.docs[2]
    /\ Cardinality(tables["q1"].rows) > 2

\* C5: delete_batch returns exactly the ids of its input that were in the
\* queue, removes exactly those messages and leaves the others as they
\* were, for every list of ids, the empty one too, in both execution modes.
C5_DeleteBatchExact ==
    [][Called("delete_batch") /\ last'.queue = "q1" =>
          LET before == tables["q1"].rows
              hit == Range(last'.ids) \cap {r.msg_id : r \in before}
          IN /\ last'.ret.kind = "ids"
             /\ Range(last'.ret.ids) = hit
             /\ Len(last'.ret.ids) = Cardinality(hit)
             /\ tables'["q1"].rows = {r \in before : r.msg_id \notin hit}]_vars

\* This step is the return of a read_with_poll of consumer c.
PollReturned(c) == pc[c] = "poll" /\ pc'[c] = "idle"

\* No message of queue q has been visible so far: each was sent with a
\* delay that has not passed.
NeverVisible(q) == \A s \in sent : s.queue = q => now < s.at + s.delay

\* C9: a read_with_poll on a queue that stays without visible messages
\* returns None, no earlier than max_poll_seconds after the call started and
\* no later than one poll interval after that; and while it has not
\* returned, that time has not passed and the loop or the clock can go on.
C9_PollEmptyTiming ==
    [][/\ PollReturned(1) /\ NeverVisible("q1") =>
          /\ last'.ret.kind = "none"
          /\ now >= last'.at + last'.max_poll_seconds
          /\ now <= last'.at + last'.max_poll_seconds + last'.poll_interval_ms \div 1000
       /\ pc[1] = "poll" =>
          /\ now <= call[1].asked.at + call[1].asked.max_poll_seconds
                    + call[1].asked.poll_interval_ms \div 1000
          /\ call[1].wake <= now \/ now < MaxClock]_vars

\* C10: an attempt of read_with_poll(qty = q) returns exactly when q
\* messages are visible or max_poll_seconds have passed, and what it returns
\* is no error: the min(q, visible) messages, None when there is none; so at
\* most q messages, and fewer than q only when the time is up.
C10_PollFirstAttempt ==
    [][pc[1] = "poll" /\ call[1].wake <= now /\ <<pc, call>>' # <<pc, call>> =>
          LET k == Cardinality(VisibleIds("q1"))
              q == call[1].asked.qty
              due == now - call[1].asked.at >= call[1].asked.max_poll_seconds
          IN /\ PollReturned(1) <=> (k >= q \/ due)
             /\ PollReturned(1) =>
                   /\ last'.ret.kind = IF k = 0 THEN "none" ELSE "msgs"
                   /\ Len(last'.ret.msgs) = Min(k, q)
                   /\ Len(last'.ret.msgs) < q => due]_vars

\* The queues and messages a session sees.
View(tb, sid) ==
    [q \in QueueNames |->
        [seen |-> QueueSeen(tb[q], sid),
         rows |-> {RowTuple(r) : r \in AsSeen(TableSeen(tb[q], sid).rows, sid)},
         arch |-> {RowTuple(r) : r \in AsSeen(TableSeen(tb[q], sid).arch, sid)}]]

\* A session that is neither the client's nor the caller's: it sees what
\* is committed.
Onlooker == CallerSession(Cardinality(Consumers) + 1)

\* This step is the return of a call made on the caller's session.
CallerCall ==
    /\ last'.session # NoSession
    /\ \/ calls' = calls + 1 /\ pc' = pc
       \/ pc[1] = "poll" /\ pc'[1] = "idle"

C6_Original ==
    [][Called("read") /\ last'.queue = "q1" =>
          \A s \in Unleased("q1") :
              IF now < s.at + s.delay THEN s.msg_id \notin Got(last'.ret)
              ELSE Returns(last'.ret, s.msg_id)]_vars

\* C6, amended: a message sent with delay d at t0 is returned by no read
\* before t0 + d; a read from t0 + d on, while the message is neither leased
\* nor removed, returns it unless a message with a smaller msg_id is visible
\* too, and then returns the visible message with the smallest msg_id. (A
\* set_vt on the message ends the delay: it is out of the history then.)
C6_DelayedVisibility ==
    [][Called("read") /\ last'.queue = "q1" =>
          \A s \in Unleased("q1") :
              IF now < s.at + s.delay THEN s.msg_id \notin Got(last'.ret)
              ELSE /\ s.msg_id \in VisibleIds("q1")
                   /\ Returns(last'.ret, MinOf(VisibleIds("q1")))]_vars

\* A read at the very second the delay of message 1 ends returned it.
C6_Witness ==
    /\ last.op = "read" /\ Returns(last.ret, 1) /\ last.ret.msgs[1].read_ct = 1
    /\ \E s \in sent : s.msg_id = 1 /\ s.delay = 2 /\ last.at = s.at + s.delay

\* The leases a read returned whose message is still in queue q.
Held(q) ==
    {l \in leases : /\ l.queue = q /\ l.op = "read"
                    /\ \E r \in tables[q].rows : r.msg_id = l.msg_id}

\* C7 as stated: read returns one message or None, None exactly when no
\* message of the queue is visible; a message read with vt = v is not
\* returned again before v seconds have passed, and is returned by every
\* read after that while it is in the queue.
C7_Original ==
    [][Called("read") /\ last'.queue = "q1" =>
          /\ last'.ret.kind \in {"none", "msg"}
          /\ last'.ret.kind = "none" <=> VisibleIds("q1") = {}
          /\ Len(last'.ret.msgs) <= 1
          /\ \A l \in Held("q1") :
                IF now < l.at + l.vt THEN l.msg_id \notin Got(last'.ret)
                ELSE Returns(last'.ret, l.msg_id)]_vars

\* C7, amended: as stated, but from v seconds on a read returns the message
\* unless a message with a smaller msg_id is visible too, and then returns
\* the visible message with the smallest msg_id. (A set_vt on the message
\* ends the lease: it is out of the history then.)
C7_ReadLease ==
    [][Called("read") /\ last'.queue = "q1" =>
          /\ last'.ret.kind \in {"none", "msg"}
          /\ last'.ret.kind = "none" <=> VisibleIds("q1") = {}
          /\ Len(last'.ret.msgs) <= 1
          /\ \A l \in Held("q1") :
                IF now < l.at + l.vt THEN l.msg_id \notin Got(last'.ret)
                ELSE /\ l.msg_id \in VisibleIds("q1")
                     /\ Returns(last'.ret, MinOf(VisibleIds("q1")))]_vars

\* A message read with vt = 2 was read a second time two seconds later.
C7_Witness ==
    /\ last.op = "read" /\ last.ret.kind = "msg" /\ last.ret.msgs[1].read_ct = 2
    /\ last.at >= 2 /\ last.ret.msgs[1].enqueued_at = 0 /\ calls = 3

\* C8: read_batch with batch_size q on a queue with k visible messages
\* returns min(k, q) messages in the same second, None when k = 0, and never
\* an error.
C8_ReadBatchCount ==
    [][Called("read_batch") /\ last'.queue = "q1" =>
          LET k == Cardinality(VisibleIds("q1"))
          IN /\ now' = now
             /\ IF k = 0 THEN last'.ret.kind = "none"
                ELSE /\ last'.ret.kind = "msgs"
                     /\ Len(last'.ret.msgs) = Min(k, last'.qty)
                     /\ Cardinality(Got(last'.ret)) = Min(k, last'.qty)]_vars

\* read_batch asked for two messages and returned the only visible one.
C8_Witness ==
    /\ last.op = "read_batch" /\ last.qty = 2
    /\ last.ret.kind = "msgs" /\ Len(last.ret.msgs) = 1
    /\ Cardinality(tables["q1"].rows) = 2

\* C11: a read_with_poll with max_poll_seconds = 0 makes exactly one lease
\* attempt and returns what it leased in the second it was called, without
\* a sleep, whatever qty and poll_interval_ms are: the min(qty, visible)
\* messages, each leased once, or None.
C11_PollZeroOneAttempt ==
    [][/\ pc[1] = "poll" /\ call[1].asked.max_poll_seconds = 0
       /\ <<pc, call>>' # <<pc, call>>
       => LET k == Cardinality(VisibleIds("q1"))
          IN /\ PollReturned(1)
             /\ now = call[1].asked.at
             /\ last'.nexec = 1
             /\ last'.ret.kind = IF k = 0 THEN "none" ELSE "msgs"
             /\ Len(last'.ret.msgs) = Min(k, call[1].asked.qty)
             /\ \A i \in 1..Len(last'.ret.msgs) :
                   \E r \in tables["q1"].rows :
                      /\ r.msg_id = last'.ret.msgs[i].msg_id
                      /\ last'.ret.msgs[i].read_ct = r.read_ct + 1]_vars

\* The ids of a set of rows.
Ids(rows) == {r.msg_id : r \in rows}

\* This step is the return of a call that hands out messages of queue q.
Handed(q) ==
    /\ last'.queue = q
    /\ \/ Called("read") \/ Called("read_batch") \/ Called("pop")
       \/ \E c \in Consumers : PollReturned(c)

\* C12: when archive(queue, id) returns true the message is out of the
\* queue and in the queue's archive, with its msg_id and payload; a message
\* in the archive is never in the queue again and is returned by no later
\* read, read_batch, read_with_poll or pop; and the archive only grows: no
\* delete, purge or archive of other messages takes a message out of it.
C12_ArchiveKeeps ==
    [][/\ Called("archive") /\ last'.ret.kind = "bool" /\ last'.ret.flag =>
             /\ \E r \in tables[last'.queue].rows :
                   /\ r.msg_id = last'.id
                   /\ \E a \in tables'[last'.queue].arch :
                         a.msg_id = r.msg_id /\ a.message = r.message
             /\ last'.id \notin Ids(tables'[last'.queue].rows)
       /\ \A q \in QueueNames :
             /\ \A a \in tables[q].arch :
                   /\ \E b \in tables'[q].arch : RowTuple(b) = RowTuple(a)
                   /\ a.msg_id \notin Ids(tables'[q].rows)
             /\ Handed(q) => Got(last'.ret) \cap Ids(tables[q].arch) = {}]_vars

\* Message 1 was archived; message 2, sent after it, was then read, and
\* message 1 is in the archive and not in the queue.
C12_Witness ==
    /\ last.op = "read" /\ Returns(last.ret, 2)
    /\ 1 \in Ids(tables["q1"].arch) /\ 1 \notin Ids(tables["q1"].rows)
    /\ \E r \in removed : r.msg_id = 1 /\ r.op = "archive"

\* C13: delete(queue, id) returns true exactly when a message with that id
\* was in the queue, and then that message, and nothing else, is removed;
\* a delete of an id right after a delete of the same id returns false and
\* leaves the store as it was; in both execution modes.
C13_DeleteOnce ==
    [][Called("delete") /\ last'.queue = "q1" =>
          LET before == tables["q1"].rows
          IN /\ last'.ret.kind = "bool"
             /\ last'.ret.flag <=> last'.id \in Ids(before)
             /\ tables'["q1"].rows = {r \in before : r.msg_id # last'.id}
             /\ tables'["q1"].arch = tables["q1"].arch
             /\ last.op = "delete" /\ last.queue = "q1" /\ last.id = last'.id =>
                   ~last'.ret.flag /\ tables' = tables]_vars

\* In the suspending mode, the second delete of message 2 in a row returned
\* false, after the first had returned true; message 1 is still in the queue.
C13_Witness ==
    /\ is_async /\ last.op = "delete" /\ last.id = 2
    /\ last.ret.kind = "bool" /\ ~last.ret.flag
    /\ \E r \in removed : r.msg_id = 2 /\ r.op = "delete"
    /\ Ids(tables["q1"].rows) = {1}

\* C15: purge(queue) removes every message of the queue, visible or not,
\* and returns how many there were; the queue's archive and every other
\* queue are as before; and a read right after the purge returns None.
C15_PurgeAll ==
    [][/\ Called("purge") /\ last'.queue \in {"q1", "q2"} /\ last'.ret.kind # "err" =>
             /\ last'.ret.kind = "int"
             /\ last'.ret.val = Cardinality(tables[last'.queue].rows)
             /\ tables'[last'.queue].rows = {}
             /\ tables'[last'.queue].arch = tables[last'.queue].arch
             /\ \A q \in QueueNames \ {last'.queue} : tables'[q] = tables[q]
       /\ Called("purge") /\ last'.ret.kind = "err" =>
             ~QueueSeen(tables[last'.queue], Onlooker) /\ tables' = tables
       /\ Called("read") /\ last.op = "purge" /\ last.queue = last'.queue
                          /\ last.ret.kind = "int" =>
             last'.ret.kind = "none"]_vars

\* A purge removed the one message of the queue, which was not visible
\* yet, and left the archived message in the archive.
C15_Witness ==
    /\ last.op = "purge" /\ last.queue = "q1" /\ last.ret.kind = "int" /\ last.ret.val = 1
    /\ tables["q1"].rows = {} /\ Ids(tables["q1"].arch) = {1}
    /\ \E s \in sent : s.queue = "q1" /\ s.msg_id = 2 /\ now < s.at + s.delay

\* C14: over every interleaving of the delete, delete_batch, archive and
\* archive_batch calls of the consumers, at most one call reports a given
\* message as removed; the message is out of the queue (for the other
\* sessions, once the call's transaction is committed); a message a delete
\* reported is not in the archive, and a message an archive reported is there.
C14_OneTerminal ==
    \A r \in removed :
        /\ r.n = 1
        /\ \A x \in tables[r.queue].rows : x.msg_id = r.msg_id => x.st = "del"
        /\ r.op \in {"delete", "delete_batch"} => r.msg_id \notin Ids(tables[r.queue].arch)
        /\ r.op \in {"archive", "archive_batch"} => r.msg_id \in Ids(tables[r.queue].arch)

\* Consumer 1 archived message 1 in a transaction of its own and committed
\* it; the delete_batch of both messages by consumer 2 then reported
\* message 2 alone.
C14_Witness ==
    /\ last.op = "delete_batch" /\ last.c = 2 /\ last.ret.ids = <<2>>
    /\ \E r \in removed : r.msg_id = 1 /\ r.op = "archive"
    /\ \E r \in removed : r.msg_id = 2 /\ r.op = "delete_batch"
    /\ Ids(tables["q1"].arch) = {1}
    /\ ~tx[CallerSession(1)]

\* The store as a whole.
Store == <<tables, extensions>>

\* This step is the return of a call that names a queue.
CallReturned ==
    \/ calls' = calls + 1 /\ pc' = pc
    \/ \E c \in Consumers : PollReturned(c)

C17_ValidationLocal ==
    [][CallReturned /\ Len(last'.queue) > 48 =>
          /\ last'.ret = RetErr("ValidationError")
          /\ last'.nexec = 0
          /\ Store' = Store]_vars

\* The error the store answers the statement of a call with, "" when it
\* executes it: the queue is not there for the session of the call, or the
\* statement has an array of no type.
StoreError(asked, c, tb) ==
    IF /\ asked.op \notin {"create_queue", "create_partitioned_queue", "drop_queue",
                            "validate_queue_name"}
       /\ ~QueueSeen(tb[asked.queue], Sid(c, asked.session))
    THEN "UndefinedTable"
    ELSE IF asked.op = "delete_batch" /\ is_async /\ asked.ids = <<>>
    THEN "IndeterminateDatatype"
    ELSE ""

\* C18: when the statement of a call reaches the store and fails there, the
\* call raises that error, in both execution modes; it has sent the one
\* statement and no other, has committed nothing and has not ended the
\* caller's transaction, and what is committed in the store is as before.
C18_StoreErrorPropagates ==
    [][CallReturned /\ last'.nexec >= 1 /\ StoreError(last', last'.c, tables) # "" =>
          /\ last'.ret = RetErr(StoreError(last', last'.c, tables))
          /\ last'.nexec = 1
          /\ last'.ncommit = 0
          /\ last'.session # NoSession => tx'[last'.session]
          /\ View(tables', Onlooker) = View(tables, Onlooker)]_vars

\* In the suspending mode, a purge on the caller's session of a queue that
\* is not there raised the store's error, with the caller's transaction,
\* in which it had created the queue and dropped it again, still open.
C18_Witness ==
    /\ is_async /\ last.op = "purge" /\ last.session = CallerSession(1) /\ last.commit
    /\ last.ret = RetErr("UndefinedTable") /\ last.nexec = 1 /\ last.ncommit = 0
    /\ tx[CallerSession(1)]
    /\ calls = 3

\* C19: in the suspending mode, a call a thread makes while the call of
\* another thread of the same client is in flight is not rejected: it
\* completes with the result of its own operation.
C19_ConcurrentCallsComplete ==
    [][/\ is_async /\ CallReturned
       /\ \E t \in Consumers : t # last'.c /\ pc[t] = "poll"
       => last'.ret.kind # "err"]_vars

\* The callers, sessions, commit flags and queues the two paths are compared on.
PathArgs ==
    {[c |-> c, session |-> s, commit |-> k, queue |-> q] :
        c \in {1}, s \in {NoSession, CallerSession(1)}, k \in BOOLEAN,
        q \in {"q1", "q2", Name49}}

\* The blocking and the suspending path of the operations that send and lease.
SameSendRead(a) ==
    /\ \A d \in {Doc1, Doc2}, dl \in Delays :
          _send_sync(tables, now, a.c, a.queue, encode_dict_to_psql(d), dl, a.session, a.commit)
          = _send_async(tables, now, a.c, a.queue, encode_dict_to_psql(d), dl, a.session, a.commit)
    /\ \A ds \in DocLists :
          _send_batch_sync(tables, now, a.c, a.queue, encode_list_to_psql(ds), 0, a.session, a.commit)
          = _send_batch_async(tables, now, a.c, a.queue, encode_list_to_psql(ds), 0, a.session, a.commit)
    /\ \A vt \in {1, 2} :
          _read_sync(tables, now, a.c, a.queue, vt, a.session, a.commit)
          = _read_async(tables, now, a.c, a.queue, vt, a.session, a.commit)
    /\ \A vt \in {1, 2}, n \in Qtys :
          _read_batch_sync(tables, now, a.c, a.queue, vt, n, a.session, a.commit)
          = _read_batch_async(tables, now, a.c, a.queue, vt, n, a.session, a.commit)
    /\ _pop_sync(tables, now, a.c, a.queue, a.session, a.commit)
       = _pop_async(tables, now, a.c, a.queue, a.session, a.commit)

\* The two paths of read_with_poll, up to session.execute.
SameReadWithPoll(a) ==
    \A n \in Qtys, s \in PollSeconds, i \in PollIntervals :
       _read_with_poll_sync(a.c, a.queue, 2, n, s, i, a.session)
       = _read_with_poll_async(a.c, a.queue, 2, n, s, i, a.session)

\* The two paths of set_vt.
SameSetVt(a) ==
    \A id \in 1..2, vt \in VTs :
       _set_vt_sync(tables, now, a.c, a.queue, id, vt, a.session, a.commit)
       = _set_vt_async(tables, now, a.c, a.queue, id, vt, a.session, a.commit)

\* The two paths of delete and delete_batch.
SameDelete(a) ==
    /\ \A id \in 1..2 :
          _delete_sync(tables, now, a.c, a.queue, id, a.session, a.commit)
          = _delete_async(tables, now, a.c, a.queue, id, a.session, a.commit)
    /\ \A ids \in BatchIds :
          _delete_batch_sync(tables, now, a.c, a.queue, ids, a.session, a.commit)
          = _delete_batch_async(tables, now, a.c, a.queue, ids, a.session, a.commit)

\* The two paths of archive, archive_batch and purge.
SameArchivePurge(a) ==
    /\ \A id \in 1..2 :
          _archive_sync(tables, now, a.c, a.queue, id, a.session, a.commit)
          = _archive_async(tables, now, a.c, a.queue, id, a.session, a.commit)
    /\ \A ids \in BatchIds :
          _archive_batch_sync(tables, now, a.c, a.queue, ids, a.session, a.commit)
          = _archive_batch_async(tables, now, a.c, a.queue, ids, a.session, a.commit)
    /\ _purge_sync(tables, now, a.c, a.queue, a.session, a.commit)
       = _purge_async(tables, now, a.c, a.queue, a.session, a.commit)

\* The two paths of the operations on the queue itself.
SameQueueOps(a) ==
    /\ \A u \in BOOLEAN :
          _create_queue_sync(tables, now, a.c, a.queue, u, a.session, a.commit)
          = _create_queue_async(tables, now, a.c, a.queue, u, a.session, a.commit)
    /\ _create_partitioned_queue_sync(tables, now, a.c, a.queue, PartitionInterval,
                                      RetentionInterval, a.session, a.commit)
       = _create_partitioned_queue_async(tables, now, a.c, a.queue, PartitionInterval,
                                         RetentionInterval, a.session, a.commit)
    /\ _validate_queue_name_sync(tables, now, a.c, a.queue, a.session)
       = _validate_queue_name_async(tables, now, a.c, a.queue, a.session)
    /\ \A pt \in BOOLEAN :
          _drop_queue_sync(tables, now, a.c, a.queue, pt, a.session, a.commit)
          = _drop_queue_async(tables, now, a.c, a.queue, pt, a.session, a.commit)

\* C20: for every operation and the same arguments, the blocking path and
\* the suspending path execute the same statement on the same session,
\* return the same result and leave the store in the same state.
C20_PathsAgree ==
    \A a \in PathArgs :
       /\ SameSendRead(a)
       /\ SameReadWithPoll(a)
       /\ SameSetVt(a)
       /\ SameDelete(a)
       /\ SameArchivePurge(a)
       /\ SameQueueOps(a)

\* The call that returned was of a method for partitioned queues.
PartitionedCall(l) ==
    l.op = "create_partitioned_queue" \/ (l.op = "drop_queue" /\ l.partitioned)

NoSource(a) ==
    /\ a.dsn = "" /\ a.engine = "" /\ a.session_maker = ""
    /\ \/ a.dialect = ""
       \/ \E f \in {"host", "port", "user", "password", "database"} : ~a[f]

\* C22 as stated: a constructor call that names nothing to connect with
\* fails, whatever transaction_mode is.
C22_Original ==
    self.constructed # "new" /\ NoSource(self.args) => self.constructed = "failed"

\* C22: a constructor call fails exactly when it names nothing to connect
\* with and transaction_mode is false, and then with ValueError and without
\* a statement to the store; with transaction_mode true it never fails.
C22_ConfigurationError ==
    [][self.constructed = "new" /\ self'.constructed # "new" =>
          /\ self'.constructed = "failed" <=> (NoSource(self.args) /\ ~self.args.transaction_mode)
          /\ self'.constructed = "failed" => self'.err = "ValueError" /\ extensions' = extensions
          /\ self'.constructed = "ready" => self'.err = ""]_vars

\* A constructor call with a dialect and four of the five other parts of
\* the connection failed.
C22_Witness ==
    /\ self.constructed = "failed" /\ self.err = "ValueError"
    /\ ~self.args.transaction_mode
    /\ self.args.dialect = "psycopg" /\ self.args.host /\ self.args.port /\ self.args.user
    /\ self.args.password /\ ~self.args.database

\* C23: a call without a session of the caller's runs on a session the
\* client obtains itself, in both modes: it does not fail for want of a
\* session, and it fails only where the store or the validation refuses it.
C23_SessionOptional ==
    [][CallReturned /\ last'.session = NoSession =>
          /\ last'.ret.err # "AttributeError"
          /\ last'.ret.kind = "err" =>
                \/ StoreError(last', last'.c, tables) # ""
                \/ Len(last'.queue) > MaxQueueNameLen]_vars

\* The vt of the messages of queue q in the tables tb, by msg_id.
VtOf(tb, q) == {<<r.msg_id, r.vt>> : r \in tb[q].rows}

\* C24: set_vt on a message that is not in the queue (deleted, archived,
\* popped, purged or never sent) returns None and changes nothing; on a
\* message in the queue it returns the message with vt = now + vt_offset and
\* leaves the others as they are. No step but a lease or a set_vt changes a
\* vt, and a read returns the first message whose vt has passed, so from
\* then on the message is leased exactly when the new vt has passed.
C24_SetVt ==
    [][/\ Called("set_vt") =>
             LET q == last'.queue
                 id == last'.id
             IN IF \A r \in tables[q].rows : r.msg_id # id
                THEN last'.ret.kind = "none" /\ tables' = tables
                ELSE /\ Returns(last'.ret, id)
                     /\ last'.ret.msgs[1].vt = now + last'.vt
                     /\ last'.ret.msgs[1].read_ct = RowOf(tables[q].rows, id).read_ct
                     /\ VtOf(tables', q) =
                           {x \in VtOf(tables, q) : x[1] # id} \cup {<<id, now + last'.vt>>}
       /\ Called("read") =>
             Got(last'.ret) = IF VisibleIds("q1") = {} THEN {}
                              ELSE {MinOf(VisibleIds("q1"))}
       /\ ~Called("set_vt") /\ ~Called("read") => VtOf(tables', "q1") \subseteq VtOf(tables, "q1")
                                                  \/ Called("send")]_vars

\* The ids of the messages of queue q the session sid may take: in the
\* queue for it, their vt passed, and not held by another transaction.
Takeable(q, sid) ==
    {r.msg_id : r \in {x \in tables[q].rows :
                          /\ x.vt <= now
                          /\ x.lock \in {0, sid}
                          /\ ~(x.lock = sid /\ x.st = "del")}}

C26_AbsentIsNone ==
    [][CallReturned =>
          LET q == last'.queue
              sid == Sid(last'.c, last'.session)
          IN /\ last'.op = "metrics" /\ ~QueueSeen(tables[q], sid) => last'.ret.kind = "none"
             /\ /\ last'.op \in {"read", "read_batch", "read_with_poll", "pop"}
                /\ QueueSeen(tables[q], sid) /\ Takeable(q, sid) = {}
                => last'.ret.kind = "none"
             /\ /\ last'.op = "set_vt" /\ QueueSeen(tables[q], sid)
                /\ \A r \in tables[q].rows : r.msg_id # last'.id
                => last'.ret.kind = "none"]_vars

\* The queues of a listing that the session no longer sees.
Vanished(listed, sid) ==
    {listed[i] : i \in 1..Len(listed)} \ {q \in QueueNames : QueueSeen(tables[q], sid)}

\* C27: a metrics_all whose listing holds a queue that was dropped before
\* the metrics step does not raise: it returns the metrics of every listed
\* queue that is still there, and none for the queue that is gone.
C27_MetricsAllSurvivesDrop ==
    [][/\ pc[1] = "metrics_all" /\ pc'[1] = "idle"
       /\ Vanished(call[1].stmt.listed, call[1].session) # {}
       => /\ last'.ret.kind # "err"
          /\ {last'.ret.msgs[i].queue_name : i \in 1..Len(last'.ret.msgs)}
             = {call[1].stmt.listed[i] : i \in 1..Len(call[1].stmt.listed)}
               \ Vanished(call[1].stmt.listed, call[1].session)]_vars

\* C28: the constructor of a client outside transaction mode leaves the
\* store with the pgmq extension, and the pg_partman extension comes into
\* the store only in a call of create_partitioned_queue or of drop_queue
\* with partitioned=True.
C28_ExtensionsOnDemand ==
    [][/\ self.constructed = "new" /\ self'.constructed = "ready" /\ ~self'.transaction_mode
          => "pgmq" \in extensions'
       /\ "pg_partman" \in extensions' \ extensions
          => CallReturned /\ PartitionedCall(last')]_vars

\* The rows the attempt of consumer 1 that is due gets from the store.
AttemptRows == session_execute(tables, now, call[1].session, call[1].stmt).rows

AttemptIds == {AttemptRows[i][1] : i \in 1..Len(AttemptRows)}

\* This step is an attempt of the read_with_poll of consumer 1.
Attempted == pc[1] = "poll" /\ call'[1] # call[1]

\* C29 as stated: a read_with_poll never returns a message that an earlier
\* attempt of the same call leased, so that the call incremented the read_ct
\* of each message it returns exactly once; and it returns no msg_id twice.
C29_Original ==
    [][Attempted /\ PollReturned(1) /\ last'.ret.kind = "msgs" =>
          /\ Cardinality(Got(last'.ret)) = Len(last'.ret.msgs)
          /\ Got(last'.ret) \cap call[1].held = {}]_vars

\* C29: an attempt of read_with_poll leases the messages it gets at once
\* (read_ct one more, vt the attempt's time plus vt), and gets no message an
\* earlier attempt of the same call leased unless vt seconds have passed
\* since; the call returns the rows of its last attempt, no msg_id twice, so
\* a call whose vt outlasts it incremented each returned read_ct once.
C29_NoRefetchWhileLeased ==
    [][Attempted =>
          LET a == call[1].asked
              rows == tables[a.queue].rows
          IN /\ Cardinality(AttemptIds) = Len(AttemptRows)
             /\ AttemptIds \cap call[1].held # {} => a.vt <= now - a.at
             /\ PollReturned(1) /\ last'.ret.kind = "msgs" =>
                   /\ Cardinality(Got(last'.ret)) = Len(last'.ret.msgs)
                   /\ Got(last'.ret) = AttemptIds
                   /\ \A i \in 1..Len(last'.ret.msgs) :
                         LET m == last'.ret.msgs[i]
                         IN /\ m.read_ct = RowOf(rows, m.msg_id).read_ct + 1
                            /\ m.vt = now + a.vt
                   /\ a.vt > now - a.at => Got(last'.ret) \cap call[1].held = {}]_vars

\* A read_with_poll for two messages leased message 1 at its first attempt,
\* waited, and returned message 2 alone, sent meanwhile: message 1 is still
\* leased and was read once.
C29_Witness ==
    /\ last.op = "read_with_poll" /\ last.ret.kind = "msgs" /\ Got(last.ret) = {2}
    /\ last.at < now /\ calls = 3
    /\ \E r \in tables["q1"].rows : r.msg_id = 1 /\ r.read_ct = 1 /\ r.vt = last.at + last.vt

\* What the store answers to the attempt of consumer 1 that is due.
AttemptResult == session_execute(tables, now, call[1].session, call[1].stmt)

\* C30: when the store fails the statement of an attempt of read_with_poll,
\* the call returns at that attempt, whatever is left of max_poll_seconds,
\* and what it returns is that error, not None: the call is over, with no
\* attempt left to make, and the clock has not moved.
C30_PollFailureAborts ==
    [][Attempted /\ AttemptResult.nexec = 1 /\ AttemptResult.err # "" =>
          /\ PollReturned(1)
          /\ last'.op = "read_with_poll" /\ last'.c = 1
          /\ last'.ret = RetErr(AttemptResult.err)
          /\ call'[1] = NoPending
          /\ now' = now]_vars

\* A read_with_poll found the queue empty at its first attempt; the queue
\* was dropped while it waited, and the next attempt, with time left to
\* poll, failed: the call returned the store's error.
C30_Witness ==
    /\ last.op = "read_with_poll" /\ last.queue = "q1" /\ last.c = 1
    /\ last.ret = RetErr("UndefinedTable")
    /\ last.at < now /\ now < last.at + last.max_poll_seconds
    /\ Idle(1)

\* The read_with_poll of thread 1 has made an attempt and waits for the next.
PollWaiting == pc[1] = "poll" /\ now < call[1].wake

\* C31: in the suspending mode, a send or a delete that thread 2 makes on
\* the client while the read_with_poll of thread 1 waits between two
\* attempts is executed: it returns what the operation gives, an id or a
\* flag, with its statement sent, and the poll is still waiting after it.
C31_PollWaitSuspendsOnlyPoll ==
    [][is_async /\ PollWaiting /\ calls' = calls + 1 /\ last'.c = 2 =>
          /\ last'.op \in {"send", "delete"}
          /\ last'.ret.kind \in {"int", "bool"}
          /\ last'.nexec = 1
          /\ pc'[1] = "poll" /\ call'[1] = call[1]]_vars

\* C32: once the constructor has returned, no step changes is_async or the
\* event loops the client has made; and a client constructed outside
\* transaction mode has made one event loop when it is in the suspending
\* mode and none when it is in the blocking mode.
C32_ModeFixed ==
    [][/\ self.constructed = "ready" =>
             /\ is_async' = is_async
             /\ self'.loops = self.loops
             /\ self'.constructed = "ready"
       /\ self'.constructed = "ready" /\ ~self'.transaction_mode =>
             self'.loops = IF is_async' THEN 1 ELSE 0]_vars

\* A client made from an asyncpg session maker has run a long poll and
\* other calls: it is in the suspending mode and has its one event loop.
C32_Witness ==
    /\ Connected /\ self.args.session_maker = "asyncpg"
    /\ is_async /\ self.loops = 1
    /\ last.op = "read_with_poll" /\ last.at < now /\ calls >= 3

\* The rows of queue q a session that starts now sees with this msg_id.
SeenRows(tb, q, id) == {r \in View(tb, Onlooker)[q].rows : r[1] = id}

\* What a call that succeeded did, as a session that starts after it sees
\* it: the message sent is in the queue, the message leased or set has the
\* read_ct and vt returned, the message deleted or archived is not in the
\* queue, the queue created is there and the queue dropped is not.
EffectVisible(l, tb) ==
    LET v == View(tb, Onlooker)[l.queue]
    IN CASE l.op = "send" /\ l.ret.kind = "int" -> SeenRows(tb, l.queue, l.ret.val) # {}
         [] l.op \in {"read", "set_vt"} /\ l.ret.kind = "msg" ->
               \E r \in v.rows : /\ r[1] = l.ret.msgs[1].msg_id
                                  /\ r[2] = l.ret.msgs[1].read_ct
                                  /\ r[4] = l.ret.msgs[1].vt
         [] l.op = "delete" /\ l.ret.kind = "bool" /\ l.ret.flag ->
               SeenRows(tb, l.queue, l.id) = {}
         [] l.op = "archive" /\ l.ret.kind = "bool" /\ l.ret.flag ->
               SeenRows(tb, l.queue, l.id) = {} /\ \E r \in v.arch : r[1] = l.id
         [] l.op = "create_queue" /\ l.ret.kind # "err" -> v.seen
         [] l.op = "drop_queue" /\ l.ret.kind = "bool" -> ~v.seen
         [] OTHER -> TRUE

\* C33: in the blocking mode, a call made with no session of the caller's
\* and commit = True that did not fail has committed once when it returns,
\* nothing of it is left uncommitted, and a session that starts afterwards
\* sees what it did; with commit = False the call commits nothing, and what
\* is committed in the store is what was before.
C33_AutocommitBeforeReturn ==
    [][~is_async /\ calls' = calls + 1 /\ last'.session = NoSession /\ last'.ret.kind # "err" =>
          IF last'.commit
          THEN /\ last'.ncommit = 1
               /\ View(tables', Onlooker) = View(tables', OwnSession(last'.c))
               /\ EffectVisible(last', tables')
          ELSE /\ last'.ncommit = 0
               /\ View(tables', Onlooker) = View(tables, Onlooker)]_vars

\* In the blocking mode a send with commit = True and no session has
\* returned id 2, after a send with commit = False whose message is not
\* there: the queue holds message 2 alone.
C33_Witness ==
    /\ ~is_async /\ last.op = "send" /\ last.session = NoSession /\ last.commit
    /\ last.ret = RetInt(2) /\ last.ncommit = 1
    /\ {r[1] : r \in View(tables, Onlooker)["q1"].rows} = {2}
    /\ removed = {}

\* The read_ct of message id of queue q1 in the store.
ReadCt(tb, id) == RowOf(tb["q1"].rows, id).read_ct

\* The ids of the messages in queue q1.
IdsIn(tb) == {r.msg_id : r \in tb["q1"].rows}

\* C34: a message enters the queue with read_ct 0; no step lowers the
\* read_ct of a message; a read, read_batch or read_with_poll that returns
\* a message returns it with read_ct one more than it had, which is what
\* the store then holds, and leaves the other messages' read_ct alone; and
\* a send, a delete, a set_vt and metrics change the read_ct of no message.
C34_ReadCt ==
    [][/\ \A id \in IdsIn(tables') \ IdsIn(tables) : ReadCt(tables', id) = 0
       /\ \A id \in IdsIn(tables') \cap IdsIn(tables) : ReadCt(tables', id) >= ReadCt(tables, id)
       /\ CallReturned =>
             LET leased == IF /\ last'.op \in {"read", "read_batch", "read_with_poll"}
                              /\ last'.ret.kind \in {"msg", "msgs"}
                           THEN Got(last'.ret) ELSE {}
             IN /\ \A i \in IF leased = {} THEN {} ELSE 1..Len(last'.ret.msgs) :
                      LET m == last'.ret.msgs[i]
                      IN /\ m.read_ct = ReadCt(tables, m.msg_id) + 1
                         /\ ReadCt(tables', m.msg_id) = m.read_ct
                /\ \A id \in (IdsIn(tables') \cap IdsIn(tables)) \ leased :
                      ReadCt(tables', id) = ReadCt(tables, id)]_vars

\* A read_batch returned messages 1 and 2, the first for the second time
\* and the second for the first time.
C34_Witness ==
    /\ last.op = "read_batch" /\ last.ret.kind = "msgs" /\ Len(last.ret.msgs) = 2
    /\ last.ret.msgs[1].msg_id = 1 /\ last.ret.msgs[1].read_ct = 2
    /\ last.ret.msgs[2].msg_id = 2 /\ last.ret.msgs[2].read_ct = 1
    /\ ReadCt(tables, 1) = 2 /\ ReadCt(tables, 2) = 1

\* The ids a send or a send_batch returned, in the order returned.
NewIds(l) ==
    CASE l.op = "send" /\ l.ret.kind = "int" -> <<l.ret.val>>
      [] l.op = "send_batch" /\ l.ret.kind = "ids" -> l.ret.ids
      [] OTHER -> <<>>

\* C35: the ids a send or a send_batch returns are greater than every id
\* a send or send_batch on that queue returned before, whatever was
\* deleted, archived, popped or purged since and whether or not the earlier
\* send was committed; and the ids of a batch increase in input order.
C35_IdsIncrease ==
    [][CallReturned =>
          LET ids == NewIds(last')
          IN /\ \A i \in 1..Len(ids) :
                   \A s \in sent : s.queue = last'.queue => s.msg_id < ids[i]
             /\ \A i, j \in 1..Len(ids) : i < j => ids[i] < ids[j]
             /\ \A i \in 1..Len(ids) :
                   \A r \in tables[last'.queue].rows \cup tables[last'.queue].arch :
                      r.msg_id # ids[i]]_vars

\* A send returned id 4 on a queue that is empty but for its message: ids
\* 1 to 3 were assigned before, and their messages are gone.
C35_Witness ==
    /\ last.op = "send" /\ last.ret = RetInt(4) /\ last.commit
    /\ {s.msg_id : s \in sent} = 1..4
    /\ {r.msg_id : r \in tables["q1"].rows} = {4}
    /\ removed # {}

\* C36 as stated: every call but read_with_poll sends exactly one statement
\* to the store, create_partitioned_queue and drop_queue(partitioned=True)
\* included.
C36_Original ==
    [][CallReturned /\ last'.op # "read_with_poll" => last'.nexec = 1]_vars

\* C36: every call sends at most one statement of its own to the store,
\* exactly one unless it raises before it sends any; and the first
\* create_partitioned_queue or drop_queue(partitioned=True) of a client
\* sends the statement of the extension check ahead of it, two in all; no
\* other call sends a second statement.
C36_OneStatementAndCheck ==
    [][CallReturned =>
          LET own == last'.nexec - last'.ncheck
          IN /\ own \in {0, 1}
             /\ last'.ret.kind # "err" => own = 1
             /\ last'.ncheck \in {0, 1}
             /\ last'.ncheck = 1 <=> PartitionedCall(last') /\ ~is_pg_partman_ext_checked
             /\ last'.nexec = 2 => PartitionedCall(last') /\ ~is_pg_partman_ext_checked]_vars

\* The first create_partitioned_queue of the client created the queue and
\* sent two statements, the extension check among them.
C36_Witness ==
    /\ last.op = "create_partitioned_queue" /\ last.ret.kind # "err"
    /\ last.nexec = 2 /\ last.ncheck = 1 /\ last.checks = 1
    /\ tables["q2"].st = "live"

\* C37: the flag is_pg_partman_ext_checked, once set, stays set; a call of
\* create_partitioned_queue or drop_queue(partitioned=True) leaves it set
\* and sends the extension check exactly when it was not set; a check the
\* store fails raises out of the call with the flag set and nothing done;
\* so no client sends the check a second time, failed or not.
C37_FlagBeforeCheck ==
    [][/\ is_pg_partman_ext_checked => is_pg_partman_ext_checked'
       /\ CallReturned /\ PartitionedCall(last') =>
             /\ is_pg_partman_ext_checked'
             /\ last'.ncheck = IF is_pg_partman_ext_checked THEN 0 ELSE 1
       /\ CallReturned /\ last'.ncheck = 1 /\ last'.ret = RetErr("OperationalError") =>
             /\ is_pg_partman_ext_checked'
             /\ last'.nexec = 1
             /\ Store' = Store
       /\ CallReturned => last'.checks <= 1]_vars

\* The second call of the client, drop_queue(partitioned=True), dropped
\* queue q1 without the extension check: the first call had sent the check,
\* which failed, for it neither created q2 nor dropped q1.
C37_Witness ==
    /\ calls = 2 /\ last.op = "drop_queue" /\ last.partitioned
    /\ last.ret = RetBool(TRUE) /\ last.ncheck = 0 /\ last.checks = 1
    /\ tables["q2"].st = "none" /\ sent = {}
    /\ is_pg_partman_ext_checked

\* The callers, their sessions, the commit flags and the queues the
\* dispatch of a client in transaction mode is looked at on.
TxArgs ==
    {[c |-> c, session |-> CallerSession(c), commit |-> k, queue |-> q] :
        c \in {1}, k \in BOOLEAN, q \in {"q1", Name49}}

\* Each public method gives what its blocking method gives.
BlockingPath(a) ==
    /\ send(tables, now, a.c, a.queue, Doc1, 0, a.session, a.commit)
       = _send_sync(tables, now, a.c, a.queue, encode_dict_to_psql(Doc1), 0, a.session, a.commit)
    /\ read(tables, now, a.c, a.queue, 1, a.session, a.commit)
       = _read_sync(tables, now, a.c, a.queue, VtOrDefault(1), a.session, a.commit)
    /\ read_with_poll(a.c, a.queue, 1, 1, 0, 1000, a.session)
       = _read_with_poll_sync(a.c, a.queue, VtOrDefault(1), 1, 0, 1000, a.session)
    /\ set_vt(tables, now, a.c, a.queue, 1, 0, a.session, a.commit)
       = _set_vt_sync(tables, now, a.c, a.queue, 1, 0, a.session, a.commit)
    /\ delete(tables, now, a.c, a.queue, 1, a.session, a.commit)
       = _delete_sync(tables, now, a.c, a.queue, 1, a.session, a.commit)
    /\ \A ids \in {<<>>, <<1, 2>>} :
          delete_batch(tables, now, a.c, a.queue, ids, a.session, a.commit)
          = _delete_batch_sync(tables, now, a.c, a.queue, ids, a.session, a.commit)

\* C38: the constructor called with transaction_mode=True returns a client
\* with is_async false, no engine, no session maker and no event loop, and
\* has sent nothing to the store, whatever it was given to connect with;
\* and from then on every public method of the client gives what its
\* blocking method gives on the caller's session, so that delete_batch of
\* the empty list returns the empty list and delete on a name of 49
\* characters is rejected by the statement builder.
C38_TransactionModeBlocking ==
    [][/\ self.constructed = "new" /\ self.args.transaction_mode /\ self'.constructed # "new" =>
             /\ self'.constructed = "ready" /\ self'.transaction_mode
             /\ Store' = Store /\ last' = last
       /\ self'.constructed = "ready" /\ self'.transaction_mode =>
             /\ ~is_async'
             /\ self'.loops = 0 /\ self'.session_maker = "" /\ self'.engine = ""
             /\ CallReturned /\ last'.op = "delete_batch" /\ last'.ids = <<>> =>
                   last'.ret = RetIds(<<>>)
       /\ self.constructed = "ready" /\ self.transaction_mode =>
             \A a \in TxArgs : BlockingPath(a)]_vars

\* A client made with transaction_mode=True and an asyncpg dsn has deleted
\* the empty batch on the caller's session, which got it the empty list
\* and is left uncommitted.
C38_Witness ==
    /\ self.constructed = "ready" /\ self.transaction_mode
    /\ self.args.dsn = Dsn("asyncpg") /\ ~is_async
    /\ last.op = "delete_batch" /\ last.ids = <<>> /\ last.ret = RetIds(<<>>)
    /\ last.session = CallerSession(1) /\ ~last.commit /\ tx[CallerSession(1)]

====
